---- MODULE Spec2Model ----
(***************************************************************************)
(* Model of the WorthPoint price pipeline of the lithos repository:        *)
(*   scripts/process-worthpoint-csvs.py   (filter, dedup, normalize, save) *)
(*   scripts/import-worthpoint-to-supabase.py (load, monthly medians)      *)
(*                                                                         *)
(* Text is modelled character by character: a Python str is a sequence of  *)
(* one-character strings.  Numbers are fixed point: money in mills         *)
(* (1/1000 USD) before rounding and in cents after round(x, 2); masses in  *)
(* 1/10000 g, so that round(x, 3) is visible.  An optional value is a      *)
(* record [some, v]; Python's None is NoneVal.                             *)
(***************************************************************************)
EXTENDS Integers, Sequences, FiniteSets, TLC

----------------------------------------------------------------------------
(* Bounds of the exploration *)

MaxFiles == 2
MaxRows == 2

----------------------------------------------------------------------------
(* Characters and str methods *)

Ascii ==
  <<" ","$","(",")","+",",","-",".","/","0","1","2","3","4","5","6","7","8","9",":","=","A","B","C","D","E","F","G","H","I","J","K","L","M","N","O","P","Q","R","S","T","U","V","W","X","Y","Z","_","a","b","c","d","e","f","g","h","i","j","k","l","m","n","o","p","q","r","s","t","u","v","w","x","y","z">>

UpperCase == <<"A","B","C","D","E","F","G","H","I","J","K","L","M","N","O","P","Q","R","S","T","U","V","W","X","Y","Z">>

LowerCase == <<"a","b","c","d","e","f","g","h","i","j","k","l","m","n","o","p","q","r","s","t","u","v","w","x","y","z">>

Digits == <<"0","1","2","3","4","5","6","7","8","9">>

Ord(c) == CHOOSE i \in 1..Len(Ascii) : Ascii[i] = c

IsDigit(c) == \E i \in 1..10 : Digits[i] = c

DigitVal(c) == (CHOOSE i \in 1..10 : Digits[i] = c) - 1

IsSpace(c) == c = " "

LowerChar(c) ==
  IF \E i \in 1..26 : UpperCase[i] = c
  THEN LowerCase[CHOOSE i \in 1..26 : UpperCase[i] = c]
  ELSE c

Lower(s) == [i \in 1..Len(s) |-> LowerChar(s[i])]

Min(a, b) == IF a < b THEN a ELSE b

Prefix(s, n) == SubSeq(s, 1, Min(Len(s), n))

StartsAt(s, p, i) == i + Len(p) - 1 <= Len(s) /\ SubSeq(s, i, i + Len(p) - 1) = p

Contains(s, p) == \E i \in 1..(Len(s) + 1) : StartsAt(s, p, i)

RECURSIVE RemoveAll(_, _)
RemoveAll(s, p) ==
  IF s = <<>> THEN <<>>
  ELSE IF StartsAt(s, p, 1) THEN RemoveAll(SubSeq(s, Len(p) + 1, Len(s)), p)
  ELSE <<Head(s)>> \o RemoveAll(Tail(s), p)

RECURSIVE StrLess(_, _)
StrLess(a, b) ==
  IF b = <<>> THEN FALSE
  ELSE IF a = <<>> THEN TRUE
  ELSE IF Head(a) = Head(b) THEN StrLess(Tail(a), Tail(b))
  ELSE Ord(Head(a)) < Ord(Head(b))

RECURSIVE Strip(_)
Strip(s) ==
  IF s = <<>> THEN s
  ELSE IF IsSpace(Head(s)) THEN Strip(Tail(s))
  ELSE IF IsSpace(s[Len(s)]) THEN Strip(SubSeq(s, 1, Len(s) - 1))
  ELSE s

RECURSIVE Basename(_)
Basename(s) ==
  IF \E i \in 1..Len(s) : s[i] = "/"
  THEN Basename(SubSeq(s, (CHOOSE i \in 1..Len(s) : s[i] = "/") + 1, Len(s)))
  ELSE s

NoneVal == [some |-> FALSE, v |-> 0]

Some(x) == [some |-> TRUE, v |-> x]

----------------------------------------------------------------------------
(* MATERIAL_CONFIG: ruleset name -> (material_slug, filter function).      *)
(* The dict keeps declaration order; entry i is ConfigKeys[i].             *)

TITLE_KEY_LEN == 60

ConfigKeys ==
  << <<"d","a","r","w","i","n","-","g","l","a","s","s">>,
     <<"_","d","a","r","w","i","n","-","g","l","a","s","s","_">>,
     <<"t","r","i","n","i","t","i","t","e">>,
     <<"a","u","s","t","r","a","l","i","t","e">>,
     <<"p","h","i","l","i","p","p","i","n","i","t","e">>,
     <<"g","e","o","r","g","i","a","i","t","e">>,
     <<"b","e","d","i","a","s","i","t","e">>,
     <<"g","i","b","e","o","n">>,
     <<"s","e","y","m","c","h","a","n">>,
     <<"c","h","e","l","y","a","b","i","n","s","k">>,
     <<"c","a","n","y","o","n","-","d","i","a","b","l","o">>,
     <<"f","u","l","g","u","r","i","t","e">>,
     <<"o","s","m","i","u","m">>,
     <<"i","r","i","d","i","u","m">>,
     <<"g","a","l","l","i","u","m">>,
     <<"b","i","s","m","u","t","h">>,
     <<"u","r","a","n","i","u","m","-","g","l","a","s","s">>,
     <<"a","l","l","e","n","d","e">>,
     <<"i","n","d","o","c","h","i","n","i","t","e">>,
     <<"n","w","a","-","m","a","r","t","i","a","n">>,
     <<"m","u","o","n","i","o","n","a","l","u","s","t","a">>,
     <<"n","w","a","-","l","u","n","a","r">>,
     <<"l","i","b","y","a","n","-","d","e","s","e","r","t","-","g","l","a","s","s">>,
     <<"s","i","k","h","o","t","e">>,
     <<"c","a","m","p","o">>,
     <<"k","t","-","b","o","u","n","d","a","r","y">>,
     <<"c","r","e","t","a","c","e","o","u","s","-","b","o","u","n","d","a","r","y">>,
     <<"i","m","p","a","c","t","-","s","p","h","e","r","u","l","e","s">> >>

ConfigSlugIsKey == ConfigKeys

ConfigSlug ==
  << <<"d","a","r","w","i","n","-","g","l","a","s","s">>,
     <<"d","a","r","w","i","n","-","g","l","a","s","s">>,
     <<"t","r","i","n","i","t","i","t","e">>,
     <<"a","u","s","t","r","a","l","i","t","e">>,
     <<"p","h","i","l","i","p","p","i","n","i","t","e">>,
     <<"g","e","o","r","g","i","a","i","t","e">>,
     <<"b","e","d","i","a","s","i","t","e">>,
     <<"g","i","b","e","o","n","-","m","e","t","e","o","r","i","t","e">>,
     <<"s","e","y","m","c","h","a","n","-","m","e","t","e","o","r","i","t","e">>,
     <<"c","h","e","l","y","a","b","i","n","s","k","-","m","e","t","e","o","r","i","t","e">>,
     <<"c","a","n","y","o","n","-","d","i","a","b","l","o","-","m","e","t","e","o","r","i","t","e">>,
     <<"f","u","l","g","u","r","i","t","e">>,
     <<"o","s","m","i","u","m">>,
     <<"i","r","i","d","i","u","m">>,
     <<"g","a","l","l","i","u","m">>,
     <<"b","i","s","m","u","t","h">>,
     <<"u","r","a","n","i","u","m","-","g","l","a","s","s">>,
     <<"a","l","l","e","n","d","e","-","m","e","t","e","o","r","i","t","e">>,
     <<"i","n","d","o","c","h","i","n","i","t","e">>,
     <<"n","w","a","-","m","a","r","t","i","a","n","-","m","e","t","e","o","r","i","t","e">>,
     <<"m","u","o","n","i","o","n","a","l","u","s","t","a","-","m","e","t","e","o","r","i","t","e">>,
     <<"n","w","a","-","l","u","n","a","r","-","m","e","t","e","o","r","i","t","e">>,
     <<"l","i","b","y","a","n","-","d","e","s","e","r","t","-","g","l","a","s","s">>,
     <<"s","i","k","h","o","t","e","-","a","l","i","n","-","m","e","t","e","o","r","i","t","e">>,
     <<"c","a","m","p","o","-","d","e","l","-","c","i","e","l","o","-","m","e","t","e","o","r","i","t","e">>,
     <<"k","p","g","-","b","o","u","n","d","a","r","y">>,
     <<"k","p","g","-","b","o","u","n","d","a","r","y">>,
     <<"k","p","g","-","b","o","u","n","d","a","r","y">> >>

FilterFn(i, t) ==
  CASE i = 1 -> Contains(t, <<"d","a","r","w","i","n"," ","g","l","a","s","s">>)
    [] i = 2 -> Contains(t, <<"d","a","r","w","i","n"," ","g","l","a","s","s">>)
    [] i = 3 -> Contains(t, <<"t","r","i","n","i","t","i","t","e">>) /\ ~Contains(t, <<"r","e","d">>)
    [] i = 4 -> Contains(t, <<"a","u","s","t","r","a","l","i","t","e">>)
    [] i = 5 -> Contains(t, <<"p","h","i","l","i","p","p","i","n","i","t","e">>)
    [] i = 6 -> Contains(t, <<"g","e","o","r","g","i","a","i","t","e">>)
    [] i = 7 -> Contains(t, <<"b","e","d","i","a","s","i","t","e">>)
    [] i = 8 -> Contains(t, <<"g","i","b","e","o","n">>)
    [] i = 9 -> Contains(t, <<"s","e","y","m","c","h","a","n">>)
    [] i = 10 -> Contains(t, <<"c","h","e","l","y","a","b","i","n","s","k">>)
    [] i = 11 -> Contains(t, <<"c","a","n","y","o","n"," ","d","i","a","b","l","o">>)
    [] i = 12 -> Contains(t, <<"f","u","l","g","u","r","i","t","e">>)
    [] i = 13 -> Contains(t, <<"o","s","m","i","u","m">>)
    [] i = 14 -> Contains(t, <<"i","r","i","d","i","u","m">>)
    [] i = 15 -> Contains(t, <<"g","a","l","l","i","u","m">>)
    [] i = 16 -> Contains(t, <<"b","i","s","m","u","t","h">>)
    [] i = 17 -> Contains(t, <<"u","r","a","n","i","u","m">>) /\ Contains(t, <<"g","l","a","s","s">>)
    [] i = 18 -> Contains(t, <<"a","l","l","e","n","d","e">>)
    [] i = 19 -> Contains(t, <<"i","n","d","o","c","h","i","n","i","t","e">>)
    [] i = 20 -> Contains(t, <<"m","a","r","t","i","a","n">>) \/ (Contains(t, <<"n","w","a">>) /\ Contains(t, <<"m","a","r","s">>)) \/ Contains(t, <<"s","h","e","r","g","o","t","t","i","t","e">>)
    [] i = 21 -> Contains(t, <<"m","u","o","n","i","o","n","a","l","u","s","t","a">>)
    [] i = 22 -> Contains(t, <<"l","u","n","a","r">>) \/ (Contains(t, <<"n","w","a">>) /\ Contains(t, <<"m","o","o","n">>))
    [] i = 23 -> Contains(t, <<"l","i","b","y","a","n">>) \/ Contains(t, <<"l","d","g">>)
    [] i = 24 -> Contains(t, <<"s","i","k","h","o","t","e">>)
    [] i = 25 -> Contains(t, <<"c","a","m","p","o">>)
    [] i = 26 -> Contains(t, <<"k","t">>) \/ Contains(t, <<"k","-","t">>) \/ Contains(t, <<"k","-","p","g">>) \/ Contains(t, <<"k","p","g">>) \/ Contains(t, <<"c","r","e","t","a","c","e","o","u","s">>) \/ Contains(t, <<"b","o","u","n","d","a","r","y">>)
    [] i = 27 -> Contains(t, <<"c","r","e","t","a","c","e","o","u","s">>) \/ Contains(t, <<"k","t">>) \/ Contains(t, <<"k","-","t">>) \/ Contains(t, <<"k","-","p","g">>) \/ Contains(t, <<"b","o","u","n","d","a","r","y">>)
    [] i = 28 -> Contains(t, <<"s","p","h","e","r","u","l","e">>) \/ Contains(t, <<"i","m","p","a","c","t">>) \/ Contains(t, <<"k","t">>) \/ Contains(t, <<"c","r","e","t","a","c","e","o","u","s">>)


DotCsv == <<".","c","s","v">>

(* the ruleset table the script runs with: "declared" is the table of      *)
(* lines 17-47, "empty" a table without rulesets                           *)
VARIABLE MATERIAL_CONFIG

(* the ruleset names of the table, in declaration order *)
RulesetNames == IF MATERIAL_CONFIG = "empty" THEN <<>> ELSE ConfigKeys

get_material_key_partial(filename) ==
  LET base == Lower(RemoveAll(Basename(filename), DotCsv))
      n == Len(RulesetNames)
  IN IF \E i \in 1..n : Contains(base, ConfigKeys[i]) \/ Contains(ConfigKeys[i], base)
     THEN CHOOSE i \in 1..n :
            /\ Contains(base, ConfigKeys[i]) \/ Contains(ConfigKeys[i], base)
            /\ \A j \in 1..(i - 1) :
                 ~(Contains(base, ConfigKeys[j]) \/ Contains(ConfigKeys[j], base))
     ELSE 0

get_material_key_last(filename) ==
  LET base == Lower(RemoveAll(Basename(filename), DotCsv))
      n == Len(RulesetNames)
  IN IF \E i \in 1..n : ConfigKeys[i] = base
     THEN CHOOSE i \in 1..n : ConfigKeys[i] = base
     ELSE IF \E i \in 1..n : Contains(base, ConfigKeys[i]) \/ Contains(ConfigKeys[i], base)
     THEN CHOOSE i \in 1..n :
            /\ Contains(base, ConfigKeys[i]) \/ Contains(ConfigKeys[i], base)
            /\ \A j \in (i + 1)..n :
                 ~(Contains(base, ConfigKeys[j]) \/ Contains(ConfigKeys[j], base))
     ELSE 0

(* get_material_key: the index of the chosen ruleset, 0 for None *)
get_material_key(filename) ==
  LET base == Lower(RemoveAll(Basename(filename), DotCsv))
      n == Len(RulesetNames)
  IN IF \E i \in 1..n : ConfigKeys[i] = base
     THEN CHOOSE i \in 1..n : ConfigKeys[i] = base
     ELSE IF \E i \in 1..n : Contains(base, ConfigKeys[i]) \/ Contains(ConfigKeys[i], base)
     THEN CHOOSE i \in 1..n :
            /\ Contains(base, ConfigKeys[i]) \/ Contains(ConfigKeys[i], base)
            /\ \A j \in 1..(i - 1) :
                 ~(Contains(base, ConfigKeys[j]) \/ Contains(ConfigKeys[j], base))
     ELSE 0

----------------------------------------------------------------------------
(* Numbers.  float(text) on the grammar [sign] digits [. digits]; the      *)
(* magnitude is kept in units of 10^-k and saturates at Huge, which lies   *)
(* above every bound the program tests.  Exponents, inf and nan are not    *)
(* part of the modelled input alphabet.                                    *)

Huge == 2000000000

RECURSIVE Pow10(_)
Pow10(k) == IF k = 0 THEN 1 ELSE 10 * Pow10(k - 1)

AllDigits(s) == \A i \in 1..Len(s) : IsDigit(s[i])

RECURSIVE DigitsToInt(_)
DigitsToInt(s) ==
  IF s = <<>> THEN 0
  ELSE LET h == DigitsToInt(SubSeq(s, 1, Len(s) - 1))
       IN IF h > (Huge - 9) \div 10 THEN Huge ELSE h * 10 + DigitVal(s[Len(s)])

IndexOf(s, c) ==
  IF \E i \in 1..Len(s) : s[i] = c
  THEN CHOOSE i \in 1..Len(s) : s[i] = c /\ \A j \in 1..(i - 1) : s[j] /= c
  ELSE 0

FracDigits(fp, k) == [i \in 1..k |-> IF i <= Len(fp) THEN fp[i] ELSE "0"]

ParseFloat(s, k) ==
  LET t == Strip(s)
      signed == t /= <<>> /\ Head(t) \in {"-", "+"}
      u == IF signed THEN Tail(t) ELSE t
      p == IndexOf(u, ".")
      ip == IF p = 0 THEN u ELSE SubSeq(u, 1, p - 1)
      fp == IF p = 0 THEN <<>> ELSE SubSeq(u, p + 1, Len(u))
      iv == DigitsToInt(ip)
  IN IF AllDigits(ip) /\ AllDigits(fp) /\ Len(ip) + Len(fp) >= 1
     THEN [ok |-> TRUE,
           neg |-> signed /\ Head(t) = "-",
           mag |-> IF iv >= Huge \div Pow10(k) THEN Huge
                   ELSE iv * Pow10(k) + DigitsToInt(FracDigits(fp, k))]
     ELSE [ok |-> FALSE, neg |-> FALSE, mag |-> 0]

(* round(): nearest, ties to even, of n/d for n >= 0, d > 0 *)
RoundDiv(n, d) ==
  LET q == n \div d
      r == n % d
  IN IF 2 * r < d THEN q
     ELSE IF 2 * r > d THEN q + 1
     ELSE IF q % 2 = 0 THEN q ELSE q + 1

(* round(a * 10^k / b) for a >= 0, b > 0, by long division *)
RECURSIVE ScaledRoundDiv(_, _, _, _)
ScaledRoundDiv(q, r, b, k) ==
  IF k = 0
  THEN IF 2 * r < b THEN q
       ELSE IF 2 * r > b THEN q + 1
       ELSE IF q % 2 = 0 THEN q ELSE q + 1
  ELSE ScaledRoundDiv(q * 10 + (r * 10) \div b, (r * 10) % b, b, k - 1)

----------------------------------------------------------------------------
(* Field extractors *)

(* round(price, 2) and round(weight, 3); a text is read with one decimal   *)
(* more than the rounding keeps, so that the rounding is a real step       *)
PRICE_DECIMALS == 2

WEIGHT_DECIMALS == 3

PRICE_SCALE == PRICE_DECIMALS + 1

WEIGHT_SCALE == WEIGHT_DECIMALS + 1

(* 0.01 < weight < 100000, in 1/10000 g *)
MIN_WEIGHT == Pow10(WEIGHT_SCALE) \div 100

MAX_WEIGHT == 100000 * Pow10(WEIGHT_SCALE)

(* 0 < price < 1000000, in mills *)
MAX_PRICE == 1000000 * Pow10(PRICE_SCALE)

(* the (pattern, multiplier) list of extract_weight; a pattern is a number *)
(* token, a separator, a unit literal and a terminator                     *)
patterns ==
  << [sep |-> "ws", units |-> {<<"g">>, <<"g","r","a","m">>, <<"g","r","a","m","s">>},
      term |-> "ws_end_comma", num |-> 1, den |-> 1],
     [sep |-> "hyphen", units |-> {<<"g">>, <<"g","r","a","m">>, <<"g","r","a","m","s">>},
      term |-> "none", num |-> 1, den |-> 1],
     [sep |-> "ws", units |-> {<<"g","r">>, <<"g","r",".">>},
      term |-> "ws_end", num |-> 1, den |-> 1],
     [sep |-> "ws", units |-> {<<"c","t">>, <<"c","t","s">>},
      term |-> "ws_end", num |-> 2, den |-> 10],
     [sep |-> "ws", units |-> {<<"c","a","r","a","t">>},
      term |-> "none", num |-> 2, den |-> 10],
     [sep |-> "ws", units |-> {<<"o","z">>},
      term |-> "ws_end", num |-> 2835, den |-> 100],
     [sep |-> "ws", units |-> {<<"k","g">>},
      term |-> "ws_end", num |-> 1000, den |-> 1],
     [sep |-> "ws", units |-> {<<"l","b">>, <<"l","b","s">>},
      term |-> "ws_end", num |-> 4536, den |-> 10] >>

DigitRunEnd(s, i) ==
  CHOOSE j \in (i - 1)..Len(s) :
    /\ \A k \in i..j : IsDigit(s[k])
    /\ j = Len(s) \/ ~IsDigit(s[j + 1])

SpaceRunEnd(s, i) ==
  CHOOSE j \in (i - 1)..Len(s) :
    /\ \A k \in i..j : IsSpace(s[k])
    /\ j = Len(s) \/ ~IsSpace(s[j + 1])

(* end of the greedy match of the number token (digits, optional point, digits) that starts at digit i *)
NumEnd(s, i) ==
  LET e == DigitRunEnd(s, i)
  IN IF e < Len(s) /\ s[e + 1] = "." THEN DigitRunEnd(s, e + 2) ELSE e

TermOK(s, term, j) ==
  CASE term = "none" -> TRUE
    [] term = "ws_end" -> j > Len(s) \/ IsSpace(s[j])
    [] term = "ws_end_comma" -> j > Len(s) \/ IsSpace(s[j]) \/ s[j] = ","

MatchAt(s, p, i) ==
  /\ IsDigit(s[i])
  /\ LET e == NumEnd(s, i)
         a == IF p.sep = "ws" THEN SpaceRunEnd(s, e + 1) + 1 ELSE e + 2
     IN /\ p.sep = "hyphen" => (e < Len(s) /\ s[e + 1] = "-")
        /\ \E u \in p.units : StartsAt(Lower(s), u, a) /\ TermOK(s, p.term, a + Len(u))

RECURSIVE extract_from(_, _)
extract_from(title, k) ==
  IF k > Len(patterns) THEN NoneVal
  ELSE LET p == patterns[k]
           starts == {i \in 1..Len(title) : MatchAt(title, p, i)}
       IN IF starts = {} THEN extract_from(title, k + 1)
          ELSE LET i == CHOOSE m \in starts : \A o \in starts : m <= o
                   x == ParseFloat(SubSeq(title, i, NumEnd(title, i)), WEIGHT_SCALE).mag * p.num
               IN IF x > MIN_WEIGHT * p.den /\ x \div p.den < MAX_WEIGHT
                  THEN Some(RoundDiv(x, p.den * 10) * 10)
                  ELSE extract_from(title, k + 1)

extract_weight_first_match(title) ==
  LET hit == {k \in 1..Len(patterns) : \E i \in 1..Len(title) : MatchAt(title, patterns[k], i)}
  IN IF hit = {} THEN NoneVal
     ELSE LET k == CHOOSE m \in hit : \A o \in hit : m <= o
              p == patterns[k]
              i == CHOOSE a \in 1..Len(title) :
                     MatchAt(title, p, a) /\ \A b \in 1..(a - 1) : ~MatchAt(title, p, b)
              x == ParseFloat(SubSeq(title, i, NumEnd(title, i)), WEIGHT_SCALE).mag * p.num
          IN IF x > MIN_WEIGHT * p.den /\ x \div p.den < MAX_WEIGHT
             THEN Some(RoundDiv(x, p.den * 10) * 10)
             ELSE NoneVal

extract_weight(title) == extract_from(title, 1)

parse_price(price_str) ==
  IF price_str = <<>> THEN NoneVal
  ELSE LET cleaned == SelectSeq(price_str, LAMBDA c : c \notin {"$", ",", " "})
           f == ParseFloat(cleaned, PRICE_SCALE)
       IN IF f.ok /\ ~f.neg /\ 0 < f.mag /\ f.mag < MAX_PRICE
          THEN Some(RoundDiv(f.mag, 10))
          ELSE NoneVal

----------------------------------------------------------------------------
(* Dates: strptime over the four formats of parse_date, strftime           *)

NoneStr == [some |-> FALSE, v |-> <<>>]

MonthAbbr ==
  << <<"j","a","n">>,
     <<"f","e","b">>,
     <<"m","a","r">>,
     <<"a","p","r">>,
     <<"m","a","y">>,
     <<"j","u","n">>,
     <<"j","u","l">>,
     <<"a","u","g">>,
     <<"s","e","p">>,
     <<"o","c","t">>,
     <<"n","o","v">>,
     <<"d","e","c">> >>

MonthFull ==
  << <<"j","a","n","u","a","r","y">>,
     <<"f","e","b","r","u","a","r","y">>,
     <<"m","a","r","c","h">>,
     <<"a","p","r","i","l">>,
     <<"m","a","y">>,
     <<"j","u","n","e">>,
     <<"j","u","l","y">>,
     <<"a","u","g","u","s","t">>,
     <<"s","e","p","t","e","m","b","e","r">>,
     <<"o","c","t","o","b","e","r">>,
     <<"n","o","v","e","m","b","e","r">>,
     <<"d","e","c","e","m","b","e","r">> >>

NoDate == [ok |-> FALSE, y |-> 0, m |-> 0, d |-> 0]

IsLeap(y) == (y % 4 = 0 /\ y % 100 /= 0) \/ y % 400 = 0

DaysIn(y, m) ==
  IF m = 2 THEN (IF IsLeap(y) THEN 29 ELSE 28)
  ELSE IF m \in {4, 6, 9, 11} THEN 30 ELSE 31

(* %d: 3[0-1]|[1-2]\d|0[1-9]|[1-9]| [1-9] ; %m: 1[0-2]|0[1-9]|[1-9] ; %Y: \d\d\d\d *)
DayTok(t) ==
  \/ Len(t) \in {1, 2} /\ AllDigits(t) /\ DigitsToInt(t) \in 1..31
  \/ Len(t) = 2 /\ t[1] = " " /\ IsDigit(t[2]) /\ t[2] /= "0"

DayVal(t) == IF t[1] = " " THEN DigitVal(t[2]) ELSE DigitsToInt(t)

MonthTok(t) == Len(t) \in {1, 2} /\ AllDigits(t) /\ DigitsToInt(t) \in 1..12

YearTok(t) == Len(t) = 4 /\ AllDigits(t)

MkDate(y, m, d) ==
  IF y >= 1 /\ d <= DaysIn(y, m) THEN [ok |-> TRUE, y |-> y, m |-> m, d |-> d] ELSE NoDate

(* "%b %d, %Y" and "%B %d, %Y": name \s+ day , \s+ year *)
StrpNamed(t, names) ==
  LET sp == IndexOf(t, " ")
      name == Lower(SubSeq(t, 1, sp - 1))
      a == SpaceRunEnd(t, sp) + 1
      rest == SubSeq(t, a, Len(t))
      c == IndexOf(rest, ",")
      day == SubSeq(rest, 1, c - 1)
      b == SpaceRunEnd(rest, c + 1) + 1
      year == SubSeq(rest, b, Len(rest))
  IN IF /\ sp > 1
        /\ \E m \in 1..12 : names[m] = name
        /\ c > 1
        /\ DayTok(day)
        /\ b > c + 1
        /\ YearTok(year)
     THEN MkDate(DigitsToInt(year), CHOOSE m \in 1..12 : names[m] = name, DayVal(day))
     ELSE NoDate

(* the three fields of a text split at two occurrences of sep *)
Split3(t, sep) ==
  LET i == IndexOf(t, sep)
      rest == SubSeq(t, i + 1, Len(t))
      j == IndexOf(rest, sep)
  IN IF i = 0 \/ j = 0 THEN << >>
     ELSE << SubSeq(t, 1, i - 1), SubSeq(rest, 1, j - 1), SubSeq(rest, j + 1, Len(rest)) >>

(* "%m/%d/%Y" *)
StrpSlash(t) ==
  LET f == Split3(t, "/")
  IN IF f /= << >> /\ MonthTok(f[1]) /\ DayTok(f[2]) /\ YearTok(f[3])
     THEN MkDate(DigitsToInt(f[3]), DigitsToInt(f[1]), DayVal(f[2]))
     ELSE NoDate

(* "%Y-%m-%d" *)
StrpIso(t) ==
  LET f == Split3(t, "-")
  IN IF f /= << >> /\ YearTok(f[1]) /\ MonthTok(f[2]) /\ DayTok(f[3])
     THEN MkDate(DigitsToInt(f[1]), DigitsToInt(f[2]), DayVal(f[3]))
     ELSE NoDate

Pad(n, w) == [i \in 1..w |-> Digits[((n \div Pow10(w - i)) % 10) + 1]]

(* whether the platform's strftime pads %Y to four digits: the C library   *)
(* decides, glibc prints a year below 1000 without leading zeros           *)
VARIABLE strftime_pads

(* %Y *)
YearField(y) ==
  IF strftime_pads \/ y >= 1000 THEN Pad(y, 4)
  ELSE Pad(y, IF y >= 100 THEN 3 ELSE IF y >= 10 THEN 2 ELSE 1)

(* strftime("%Y-%m-%d") *)
Strftime(dt) == YearField(dt.y) \o <<"-">> \o Pad(dt.m, 2) \o <<"-">> \o Pad(dt.d, 2)

parse_date(date_str) ==
  IF date_str = <<>> THEN NoneStr
  ELSE LET t == Strip(date_str)
       IN IF StrpNamed(t, MonthAbbr).ok THEN Some(Strftime(StrpNamed(t, MonthAbbr)))
          ELSE IF StrpNamed(t, MonthFull).ok THEN Some(Strftime(StrpNamed(t, MonthFull)))
          ELSE IF StrpSlash(t).ok THEN Some(Strftime(StrpSlash(t)))
          ELSE IF StrpIso(t).ok THEN Some(Strftime(StrpIso(t)))
          ELSE Some(date_str)

----------------------------------------------------------------------------
(* Input alphabet: file names of DATA_DIR and the rows csv.DictReader yields *)

F_cretaceous == <<"c","r","e","t","a","c","e","o","u","s","-","b","o","u","n","d","a","r","y",".","c","s","v">>

F_darwin == <<"d","a","r","w","i","n","-","g","l","a","s","s",".","c","s","v">>

F_kt == <<"k","t","-","b","o","u","n","d","a","r","y",".","c","s","v">>

F_notes == <<"n","o","t","e","s",".","c","s","v">>

F_trinitite == <<"t","r","i","n","i","t","i","t","e",".","c","s","v">>

T_darwin == <<"D","a","r","w","i","n"," ","G","l","a","s","s"," ","t","e","k","t","i","t","e"," ","5",".","2","g"," ","s","o","l","d">>

T_darwin_caps == <<"d","a","r","w","i","n"," ","g","l","a","s","s"," ","t","e","k","t","i","t","e"," ","5",".","2","g"," ","S","O","L","D">>

T_long_a == <<"D","a","r","w","i","n"," ","g","l","a","s","s"," ","i","m","p","a","c","t","i","t","e"," ","s","p","e","c","i","m","e","n"," ","f","r","o","m"," ","M","o","u","n","t"," ","D","a","r","w","i","n"," ","c","r","a","t","e","r"," ","T","a","s","m","a","n","i","a"," ","3",".","1","g">>

T_long_b == <<"D","a","r","w","i","n"," ","g","l","a","s","s"," ","i","m","p","a","c","t","i","t","e"," ","s","p","e","c","i","m","e","n"," ","f","r","o","m"," ","M","o","u","n","t"," ","D","a","r","w","i","n"," ","c","r","a","t","e","r"," ","T","a","s","m","a","n","i","a","n"," ","f","i","e","l","d"," ","1","2","c","t">>

T_trinitite == <<"T","r","i","n","i","t","i","t","e"," ","s","a","m","p","l","e"," ","0",".","0","0","5","g">>

T_boundary == <<"K","T"," ","b","o","u","n","d","a","r","y"," ","c","l","a","y"," ","2","o","z">>

T_layer == <<"C","r","e","t","a","c","e","o","u","s"," ","K","-","P","g"," ","l","a","y","e","r"," ","1","0","g">>

T_chip == <<"D","a","r","w","i","n"," ","g","l","a","s","s"," ","c","h","i","p"," ","0",".","0","1","0","4","g">>

P_50 == <<"$","5","0",".","0","0">>

P_1234 == <<"1",",","2","3","4",".","5","6">>

P_top == <<"9","9","9","9","9","9",".","9","9","9">>

P_tiny == <<"0",".","0","0","4">>

P_bad == <<"c","a","l","l">>

P_cent == <<"0",".","0","1">>

D_iso == <<"2","0","2","4","-","0","1","-","1","5">>

D_named == <<"J","a","n"," ","2","0",","," ","2","0","2","4">>

D_slash == <<"0","2","/","0","5","/","2","0","2","4">>

D_text == <<"s","o","m","e","t","i","m","e"," ","i","n"," ","2","0","2","3">>

D_short == <<"n","/","a">>

D_stamp == <<"2","0","2","4","-","0","1","-","1","5"," ","1","0",":","3","0">>

W_neg == <<"-","5">>

W_zero == <<"0">>

W_small == <<"0",".","0","0","5">>

W_5_2 == <<"5",".","2">>

W_bad == <<"h","e","a","v","y">>

W_kilo == <<"1","0","0","0">>

FileNames == {F_cretaceous, F_darwin, F_kt, F_notes, F_trinitite}

Row(t, p, d, w) ==
  [title |-> t, price_usd |-> p, price |-> <<>>, sale_date |-> d, date |-> <<>>,
   weight_grams |-> w]

Rows ==
  { Row(T_darwin, P_50, D_iso, <<>>),
    Row(T_darwin_caps, P_50, D_named, <<>>),
    Row(T_darwin, <<>>, D_iso, <<>>),
    Row(T_darwin, P_bad, D_iso, W_5_2),
    Row(T_darwin, P_50, D_iso, W_neg),
    Row(T_darwin, P_50, D_text, <<>>),
    Row(T_darwin_caps, P_cent, D_stamp, W_kilo),
    Row(T_boundary, P_top, D_slash, <<>>),
    Row(T_boundary, P_tiny, D_iso, <<>>),
    [title |-> T_layer, price_usd |-> <<>>, price |-> P_50, sale_date |-> <<>>,
     date |-> D_slash, weight_grams |-> W_zero],
    Row(T_trinitite, P_50, D_iso, W_small),
    Row(T_trinitite, P_50, <<>>, <<>>),
    Row(T_chip, P_50, D_short, <<>>),
    Row(T_long_a, P_1234, D_iso, <<>>),
    Row(T_long_b, P_50, <<>>, W_bad) }

----------------------------------------------------------------------------
(* State *)

VARIABLES
  pc,             \* step of process-worthpoint-csvs.py main()
  last_file,      \* the file name the filter loop took last (files come sorted)
  n_files,        \* files taken so far
  total_raw,      \* raw rows read so far
  material_key,   \* index of the current file's ruleset, 0 between files
  kept, dropped,  \* counters of the current file
  filter_stats,   \* (before, kept, dropped) of every finished file
  title,          \* the lowercased title of the row handled last
  outcome,        \* which branch that row took
  seen_titles,    \* global deduplication set
  filtered_data,  \* material_slug -> rows, in insertion order
  gi, ri,         \* position of the normalize loops in filtered_data
  all_rows,       \* normalized rows
  csv_file,       \* worthpoint-all-materials.csv as written
  ipc,            \* step of import-worthpoint-to-supabase.py main()
  records,        \* result of load_merged_csv
  aggregated,     \* result of calculate_monthly_medians
  offered         \* history: every raw row the filter loop has handled

(* insert_to_supabase: the records are known by their position 1..n_records *)
VARIABLES
  xpc,            \* step of insert_to_supabase
  n_records,      \* len(records)
  batch_i,        \* i of the loop over range(0, len(records), batch_size)
  record_pos,     \* records of the current batch the fallback loop has sent
  inserted, errors,
  request,        \* the records of the POST made last
  batch_sent,     \* history: records that went out in a batch POST
  single_sent,    \* history: records that went out in a POST of their own
  rejected        \* history: records of the batches answered with an HTTP error

insert_vars == << xpc, n_records, batch_i, record_pos, inserted, errors, request,
                  batch_sent, single_sent, rejected >>

(* insert_to_supabase has not been called *)
InsertIdle ==
  /\ xpc = "idle"
  /\ n_records = 0
  /\ batch_i = 0
  /\ record_pos = 0
  /\ inserted = 0
  /\ errors = 0
  /\ request = {}
  /\ batch_sent = {}
  /\ single_sent = {}
  /\ rejected = {}

(* The scrapers: seen_titles of worthpoint-scraper.py and of
   worthpoint-playwright.py, and the page loop of
   worthpoint-chrome-scraper.py. dup and n_fed are history variables of the
   comparison of the deduplication paths, navigations counts the calls of
   page.goto. *)
VARIABLES scraper_seen, playwright_seen, dup, n_fed,
          spc, page_num, offset, consecutive_empty, navigations

scraper_vars == << scraper_seen, playwright_seen, dup, n_fed,
                   spc, page_num, offset, consecutive_empty, navigations >>

ScraperIdle ==
  /\ scraper_seen = {}
  /\ playwright_seen = {}
  /\ dup = << >>
  /\ n_fed = 0
  /\ spc = "idle"
  /\ page_num = 0
  /\ offset = 0
  /\ consecutive_empty = 0
  /\ navigations = 0

vars ==
  << pc, last_file, n_files, total_raw, material_key, kept, dropped, filter_stats,
     title, outcome, seen_titles, filtered_data, gi, ri, all_rows, csv_file,
     ipc, records, aggregated, offered, MATERIAL_CONFIG, strftime_pads,
     xpc, n_records, batch_i, record_pos, inserted, errors, request,
     batch_sent, single_sent, rejected,
     scraper_seen, playwright_seen, dup, n_fed,
     spc, page_num, offset, consecutive_empty, navigations >>

filter_vars == << material_key, kept, dropped, filter_stats, title, outcome,
                  seen_titles, filtered_data >>

import_vars == << ipc, records, aggregated >>

(* main() is entered *)
Started ==
  /\ pc = "filter"
  /\ last_file = <<>>
  /\ n_files = 0
  /\ total_raw = 0
  /\ material_key = 0
  /\ kept = 0
  /\ dropped = 0
  /\ filter_stats = <<>>
  /\ title = <<>>
  /\ outcome = "none"
  /\ seen_titles = {}
  /\ filtered_data = <<>>
  /\ gi = 1
  /\ ri = 1
  /\ all_rows = <<>>
  /\ csv_file = <<>>
  /\ ipc = "idle"
  /\ records = <<>>
  /\ aggregated = <<>>
  /\ offered = {}
  /\ InsertIdle
  /\ ScraperIdle

(* the script as written, on a platform whose strftime does not pad; the    *)
(* platforms differ only for years below 1000                               *)
Init == MATERIAL_CONFIG = "declared" /\ strftime_pads = FALSE /\ Started

----------------------------------------------------------------------------
(* process-worthpoint-csvs.py, step 2: filter and deduplicate *)

title_key_untruncated(t) == t

title_key(t) == Prefix(t, TITLE_KEY_LEN)

(* row.get('price_usd') or row.get('price') *)
PriceText(row) == IF row.price_usd /= <<>> THEN row.price_usd ELSE row.price

(* row.get('sale_date') or row.get('date') *)
DateText(row) == IF row.sale_date /= <<>> THEN row.sale_date ELSE row.date

(* `if not price` *)
Falsy(x) == ~x.some \/ x.v = 0

(* filtered_data[material_slug].append(row) on a defaultdict(list) *)
AppendTo(fd, slug, row) ==
  IF \E g \in 1..Len(fd) : fd[g].slug = slug
  THEN [g \in 1..Len(fd) |->
          IF fd[g].slug = slug THEN [fd[g] EXCEPT !.rows = Append(@, row)] ELSE fd[g]]
  ELSE Append(fd, [slug |-> slug, rows |-> <<row>>])

OpenFileFreshSeen(f, n) ==
  /\ pc = "filter"
  /\ material_key = 0
  /\ n_files < MaxFiles
  /\ last_file = <<>> \/ StrLess(last_file, f)
  /\ last_file' = f
  /\ n_files' = n_files + 1
  /\ material_key' = get_material_key(f)
  /\ seen_titles' = {}
  /\ IF material_key' = 0
     THEN /\ n > 0
          /\ total_raw + n <= MaxRows
          /\ total_raw' = total_raw + n
          /\ UNCHANGED << kept, dropped >>
     ELSE /\ n = 0
          /\ kept' = 0
          /\ dropped' = 0
          /\ UNCHANGED total_raw
  /\ UNCHANGED << pc, filter_stats, title, outcome,
                  filtered_data, gi, ri, all_rows, csv_file, offered >>
  /\ UNCHANGED import_vars
  /\ UNCHANGED << MATERIAL_CONFIG, strftime_pads >>
  /\ UNCHANGED scraper_vars
  /\ UNCHANGED insert_vars

(* for filename, rows in raw_data.items(): the next file, in sorted order *)
(* a file without a ruleset is skipped with a warning; its n rows were    *)
(* counted in total_raw by step 1 and are never visited                    *)
OpenFile(f, n) ==
  /\ pc = "filter"
  /\ material_key = 0
  /\ n_files < MaxFiles
  /\ last_file = <<>> \/ StrLess(last_file, f)
  /\ last_file' = f
  /\ n_files' = n_files + 1
  /\ material_key' = get_material_key(f)
  /\ IF material_key' = 0
     THEN /\ n > 0
          /\ total_raw + n <= MaxRows
          /\ total_raw' = total_raw + n
          /\ UNCHANGED << kept, dropped >>
     ELSE /\ n = 0
          /\ kept' = 0
          /\ dropped' = 0
          /\ UNCHANGED total_raw
  /\ UNCHANGED << pc, filter_stats, title, outcome, seen_titles,
                  filtered_data, gi, ri, all_rows, csv_file, offered >>
  /\ UNCHANGED import_vars
  /\ UNCHANGED << MATERIAL_CONFIG, strftime_pads >>
  /\ UNCHANGED scraper_vars
  /\ UNCHANGED insert_vars

FilterOutcomeUnfiltered(pass, k, seen) ==
  IF k \in seen THEN "duplicate" ELSE "kept"

(* the branch a row takes: the filter first, then the deduplication *)
FilterOutcome(pass, k, seen) ==
  IF ~pass THEN "filtered"
  ELSE IF k \in seen THEN "duplicate"
  ELSE "kept"

SeenAfterNever(pass, k, seen) == seen

SeenAfterAlways(pass, k, seen) == seen \cup {k}

(* seen_titles.add(title_key), reached only by a kept row *)
SeenAfter(pass, k, seen) ==
  IF FilterOutcome(pass, k, seen) = "kept" THEN seen \cup {k} ELSE seen

(* for row in rows: one iteration *)
FilterRow(row) ==
  /\ pc = "filter"
  /\ material_key > 0
  /\ total_raw < MaxRows
  /\ LET t == Lower(row.title)
         k == title_key(t)
         pass == FilterFn(material_key, t)
     IN /\ title' = t
        /\ outcome' = FilterOutcome(pass, k, seen_titles)
        /\ seen_titles' = SeenAfter(pass, k, seen_titles)
        /\ offered' = offered \cup
             {[title |-> t, passed |-> pass, priced |-> ~Falsy(parse_price(PriceText(row)))]}
        /\ IF outcome' = "kept"
           THEN /\ filtered_data' = AppendTo(filtered_data, ConfigSlug[material_key], row)
                /\ kept' = kept + 1
                /\ UNCHANGED dropped
           ELSE /\ dropped' = dropped + 1
                /\ UNCHANGED << kept, filtered_data >>
  /\ total_raw' = total_raw + 1
  /\ UNCHANGED << pc, last_file, n_files, material_key, filter_stats, gi, ri,
                  all_rows, csv_file >>
  /\ UNCHANGED import_vars
  /\ UNCHANGED << MATERIAL_CONFIG, strftime_pads >>
  /\ UNCHANGED scraper_vars
  /\ UNCHANGED insert_vars

(* filter_stats[filename] = (before, kept, dropped); the files of a run hold *)
(* at least one row each                                                   *)
CloseFile ==
  /\ pc = "filter"
  /\ material_key > 0
  /\ kept + dropped > 0
  /\ filter_stats' = Append(filter_stats, << kept + dropped, kept, dropped >>)
  /\ material_key' = 0
  /\ UNCHANGED << pc, last_file, n_files, total_raw, kept, dropped, title, outcome,
                  seen_titles, filtered_data, gi, ri, all_rows, csv_file, offered >>
  /\ UNCHANGED import_vars
  /\ UNCHANGED << MATERIAL_CONFIG, strftime_pads >>
  /\ UNCHANGED scraper_vars
  /\ UNCHANGED insert_vars

(* the loop over raw_data is exhausted; its position and the locals of its *)
(* body (title, kept, dropped) are not read again                          *)
EndFilter ==
  /\ pc = "filter"
  /\ material_key = 0
  /\ pc' = "normalize"
  /\ last_file' = <<>>
  /\ n_files' = 0
  /\ kept' = 0
  /\ dropped' = 0
  /\ title' = <<>>
  /\ outcome' = "none"
  /\ UNCHANGED << total_raw, material_key, filter_stats, seen_titles, filtered_data,
                  gi, ri, all_rows, csv_file, offered >>
  /\ UNCHANGED import_vars
  /\ UNCHANGED << MATERIAL_CONFIG, strftime_pads >>
  /\ UNCHANGED scraper_vars
  /\ UNCHANGED insert_vars

----------------------------------------------------------------------------
(* process-worthpoint-csvs.py, step 3: normalize *)

(* weight: the pre-supplied field if it parses and is truthy, else the title *)
SignedWeight(f) == IF f.neg THEN 0 - f.mag ELSE f.mag

RowWeight(row) ==
  LET f == ParseFloat(row.weight_grams, WEIGHT_SCALE)
      given == IF row.weight_grams /= <<>> /\ f.ok THEN Some(SignedWeight(f)) ELSE NoneVal
  IN IF Falsy(given) THEN extract_weight(row.title) ELSE given

RECURSIVE ScaledDiv(_, _, _, _)
ScaledDiv(q, r, b, k) ==
  IF k = 0 THEN q ELSE ScaledDiv(q * 10 + (r * 10) \div b, (r * 10) % b, b, k - 1)

PricePerGramTruncated(price, weight) ==
  IF ~Falsy(weight) /\ weight.v > 0
  THEN Some(ScaledDiv(price \div weight.v, price % weight.v, weight.v, WEIGHT_SCALE))
  ELSE NoneVal

(* round(price / weight, 2), price in cents, weight in 1/10000 g *)
PricePerGram(price, weight) ==
  IF ~Falsy(weight) /\ weight.v > 0
  THEN Some(ScaledRoundDiv(price \div weight.v, price % weight.v, weight.v, WEIGHT_SCALE))
  ELSE NoneVal

Normalized(slug, row) ==
  LET price == parse_price(PriceText(row))
      weight == RowWeight(row)
  IN [material_slug |-> slug,
      title |-> row.title,
      price_usd |-> price.v,
      sale_date |-> parse_date(DateText(row)),
      weight_grams |-> weight,
      price_per_gram |-> PricePerGram(price.v, weight)]

EmitsDated(row) ==
  ~Falsy(parse_price(PriceText(row))) /\ parse_date(DateText(row)).some

(* `if not price: continue` *)
Emits(row) == ~Falsy(parse_price(PriceText(row)))

(* one iteration of the inner loop over filtered_data.items() *)
NormalizeRow ==
  /\ pc = "normalize"
  /\ gi <= Len(filtered_data)
  /\ LET g == filtered_data[gi]
         row == g.rows[ri]
     IN /\ IF Emits(row)
           THEN all_rows' = Append(all_rows, Normalized(g.slug, row))
           ELSE UNCHANGED all_rows
        /\ IF ri < Len(g.rows)
           THEN ri' = ri + 1 /\ UNCHANGED gi
           ELSE ri' = 1 /\ gi' = gi + 1
  /\ UNCHANGED << pc, last_file, n_files, total_raw, csv_file, offered >>
  /\ UNCHANGED filter_vars
  /\ UNCHANGED import_vars
  /\ UNCHANGED << MATERIAL_CONFIG, strftime_pads >>
  /\ UNCHANGED scraper_vars
  /\ UNCHANGED insert_vars

(* step 4: csv.DictWriter writes None as the empty field *)
CsvRow(r) ==
  [material_slug |-> r.material_slug,
   title |-> r.title,
   price_usd |-> r.price_usd,
   sale_date |-> IF r.sale_date.some THEN r.sale_date.v ELSE <<>>,
   weight_grams |-> r.weight_grams,
   price_per_gram |-> r.price_per_gram]

Save ==
  /\ pc = "normalize"
  /\ gi > Len(filtered_data)
  /\ csv_file' = [i \in 1..Len(all_rows) |-> CsvRow(all_rows[i])]
  /\ pc' = "summary"
  /\ UNCHANGED << last_file, n_files, total_raw, gi, ri, all_rows, offered >>
  /\ UNCHANGED filter_vars
  /\ UNCHANGED import_vars
  /\ UNCHANGED << MATERIAL_CONFIG, strftime_pads >>
  /\ UNCHANGED scraper_vars
  /\ UNCHANGED insert_vars

(* step 5: min() and the percentage are taken over all_rows *)
Summary ==
  /\ pc = "summary"
  /\ pc' = IF all_rows = <<>> THEN "raised" ELSE "done"
  /\ UNCHANGED << last_file, n_files, total_raw, gi, ri, all_rows, csv_file, offered >>
  /\ UNCHANGED filter_vars
  /\ UNCHANGED import_vars
  /\ UNCHANGED << MATERIAL_CONFIG, strftime_pads >>
  /\ UNCHANGED scraper_vars
  /\ UNCHANGED insert_vars

----------------------------------------------------------------------------
(* import-worthpoint-to-supabase.py *)

(* ppg > 50000, in cents *)
MAX_PPG == 50000 * 100

MONTH_KEY_LEN == 7

LoadableUnbounded(r) ==
  /\ r.price_per_gram.some
  /\ r.sale_date /= <<>>
  /\ r.price_per_gram.v > 0

(* rows of the merged CSV that load_merged_csv keeps *)
Loadable(r) ==
  /\ r.price_per_gram.some
  /\ r.sale_date /= <<>>
  /\ r.price_per_gram.v > 0
  /\ r.price_per_gram.v <= MAX_PPG

LoadRecord(r) ==
  [material_slug |-> r.material_slug,
   price_per_gram |-> r.price_per_gram.v,
   sale_date |-> r.sale_date]

RECURSIVE load_rows(_)
load_rows(rows) ==
  IF rows = <<>> THEN <<>>
  ELSE IF Loadable(Head(rows)) THEN <<LoadRecord(Head(rows))>> \o load_rows(Tail(rows))
  ELSE load_rows(Tail(rows))

Load ==
  /\ pc \in {"done", "raised"}
  /\ ipc = "idle"
  /\ records' = load_rows(csv_file)
  /\ ipc' = "loaded"
  /\ UNCHANGED << pc, last_file, n_files, total_raw, gi, ri, all_rows, csv_file,
                  aggregated, offered >>
  /\ UNCHANGED filter_vars
  /\ UNCHANGED << MATERIAL_CONFIG, strftime_pads >>
  /\ UNCHANGED scraper_vars
  /\ UNCHANGED insert_vars

(* the grouping loop: is r given a bucket, and which *)
Bucketed(r) == r.sale_date /= <<>> /\ Len(r.sale_date) >= MONTH_KEY_LEN

BucketKey(r) == << r.material_slug, Prefix(r.sale_date, MONTH_KEY_LEN) >>

GroupKeys(recs) == {BucketKey(recs[i]) : i \in {j \in 1..Len(recs) : Bucketed(recs[j])}}

RECURSIVE GroupPrices(_, _)
GroupPrices(recs, key) ==
  IF recs = <<>> THEN <<>>
  ELSE IF Bucketed(Head(recs)) /\ BucketKey(Head(recs)) = key
  THEN <<Head(recs).price_per_gram>> \o GroupPrices(Tail(recs), key)
  ELSE GroupPrices(Tail(recs), key)

(* tuple order of sorted(grouped.items()) *)
KeyLess(a, b) == StrLess(a[1], b[1]) \/ (a[1] = b[1] /\ StrLess(a[2], b[2]))

RECURSIVE SortedKeys(_)
SortedKeys(keys) ==
  IF keys = {} THEN <<>>
  ELSE LET m == CHOOSE k \in keys : \A o \in keys \ {k} : KeyLess(k, o)
       IN <<m>> \o SortedKeys(keys \ {m})

RECURSIVE SortedPrices(_)
SortedPrices(s) ==
  IF s = <<>> THEN <<>>
  ELSE LET i == CHOOSE k \in 1..Len(s) : \A o \in 1..Len(s) : s[k] <= s[o]
       IN <<s[i]>> \o SortedPrices(SubSeq(s, 1, i - 1) \o SubSeq(s, i + 1, Len(s)))

Median2Upper(prices) ==
  LET s == SortedPrices(prices)
  IN 2 * s[Len(s) \div 2 + 1]

(* statistics.median, doubled so that the mean of two cents stays integral *)
Median2(prices) ==
  LET s == SortedPrices(prices)
      n == Len(s)
  IN IF n % 2 = 1 THEN 2 * s[(n + 1) \div 2] ELSE s[n \div 2] + s[n \div 2 + 1]

RECURSIVE IntToStr(_)
IntToStr(n) ==
  IF n < 10 THEN <<Digits[n + 1]>> ELSE IntToStr(n \div 10) \o <<Digits[(n % 10) + 1]>>

SourcePrefix == <<"W","o","r","t","h","P","o","i","n","t"," ","(","n","=">>

SourceLabel(n) == SourcePrefix \o IntToStr(n) \o <<")">>

MidMonth == <<"-","1","5">>

AggregateCountDistinct(slug, month, prices) ==
  [material_slug |-> slug,
   price_usd |-> RoundDiv(Median2(prices), 2),
   price_per |-> "gram",
   source |-> SourceLabel(Cardinality({prices[i] : i \in 1..Len(prices)})),
   recorded_at |-> month \o MidMonth]

Aggregate(slug, month, prices) ==
  [material_slug |-> slug,
   price_usd |-> RoundDiv(Median2(prices), 2),
   price_per |-> "gram",
   source |-> SourceLabel(Len(prices)),
   recorded_at |-> month \o MidMonth]

calculate_monthly_medians(recs) ==
  LET keys == SortedKeys(GroupKeys(recs))
  IN [i \in 1..Len(keys) |-> Aggregate(keys[i][1], keys[i][2], GroupPrices(recs, keys[i]))]

CalculateMonthlyMedians ==
  /\ ipc = "loaded"
  /\ aggregated' = calculate_monthly_medians(records)
  /\ ipc' = "aggregated"
  /\ UNCHANGED << pc, last_file, n_files, total_raw, gi, ri, all_rows, csv_file,
                  records, offered >>
  /\ UNCHANGED filter_vars
  /\ UNCHANGED << MATERIAL_CONFIG, strftime_pads >>
  /\ UNCHANGED scraper_vars
  /\ UNCHANGED insert_vars

----------------------------------------------------------------------------

Next ==
  \/ \E f \in FileNames, n \in 0..MaxRows : OpenFile(f, n)
  \/ \E row \in Rows : FilterRow(row)
  \/ CloseFile
  \/ EndFilter
  \/ NormalizeRow
  \/ Save
  \/ Summary
  \/ Load
  \/ CalculateMonthlyMedians

Spec == Init /\ [][Next]_vars

----------------------------------------------------------------------------
(* import-worthpoint-to-supabase.py run on its own: CSV_FILE is a file on   *)
(* disk, written by an earlier run of the processor, whose memory is gone   *)

MaxCsv == 4

S_darwin == <<"d","a","r","w","i","n","-","g","l","a","s","s">>

S_trinitite == <<"t","r","i","n","i","t","i","t","e">>

D_feb == <<"2","0","2","4","-","0","2","-","0","5">>

(* a line of the merged CSV: a sale of 1 g, so price_per_gram = price_usd *)
CsvSale(slug, date, ppg) ==
  CsvRow([material_slug |-> slug,
          title |-> T_darwin,
          price_usd |-> IF ppg.some THEN ppg.v ELSE 5000,
          sale_date |-> date,
          weight_grams |-> IF ppg.some THEN Some(Pow10(WEIGHT_SCALE)) ELSE NoneVal,
          price_per_gram |-> ppg])

CsvSales ==
  { CsvSale(S_darwin, Some(D_iso), Some(100)),
    CsvSale(S_darwin, Some(D_iso), Some(200)),
    CsvSale(S_darwin, Some(D_iso), Some(300)),
    CsvSale(S_darwin, Some(D_iso), Some(400)),
    CsvSale(S_darwin, Some(D_iso), Some(205)),
    CsvSale(S_darwin, Some(D_feb), Some(200)),
    CsvSale(S_trinitite, Some(D_short), Some(100)),
    CsvSale(S_trinitite, Some(D_iso), NoneVal) }

ImportInit ==
  /\ pc = "done"
  /\ last_file = <<>>
  /\ n_files = 0
  /\ total_raw = 0
  /\ material_key = 0
  /\ kept = 0
  /\ dropped = 0
  /\ filter_stats = <<>>
  /\ title = <<>>
  /\ outcome = "none"
  /\ seen_titles = {}
  /\ filtered_data = <<>>
  /\ gi = 1
  /\ ri = 1
  /\ all_rows = <<>>
  /\ csv_file \in UNION {[1..n -> CsvSales] : n \in 0..MaxCsv}
  /\ ipc = "idle"
  /\ records = <<>>
  /\ aggregated = <<>>
  /\ offered = {}
  /\ MATERIAL_CONFIG = "declared"
  /\ strftime_pads = FALSE
  /\ InsertIdle
  /\ ScraperIdle

ImportNext ==
  \/ Load
  \/ CalculateMonthlyMedians

ImportSpec == ImportInit /\ [][ImportNext]_vars

----------------------------------------------------------------------------
(* import-worthpoint-to-supabase.py, insert_to_supabase *)

batch_size == 100

MaxRecords == 101

(* len(records) of the calls explored: none, one, a full batch, and a full  *)
(* batch followed by a short one                                            *)
RecordCounts == {0, 1, batch_size, MaxRecords}

(* records[i:i+batch_size], as positions *)
Batch == (batch_i + 1)..(IF batch_i + batch_size < n_records THEN batch_i + batch_size
                         ELSE n_records)

ErrorsAfterBatchErrorOne(e, batch) == e + 1

(* errors += len(batch) *)
ErrorsAfterBatchError(e, batch) == e + Cardinality(batch)

(* the answers a POST of a batch can get: accepted; an HTTPError whose body *)
(* decodes as UTF-8, or has no body; an HTTPError whose body does not       *)
(* decode; any other exception                                              *)
BatchAnswers == {"ok", "http_error", "http_error_undecodable", "error"}

(* the call from main(), up to the loop *)
Call ==
  /\ xpc = "idle"
  /\ xpc' = "batch"
  /\ inserted' = 0
  /\ errors' = 0
  /\ batch_i' = 0
  /\ UNCHANGED << n_records, record_pos, request, batch_sent, single_sent, rejected >>
  /\ UNCHANGED << pc, last_file, n_files, total_raw, gi, ri, all_rows, csv_file, offered >>
  /\ UNCHANGED filter_vars
  /\ UNCHANGED import_vars
  /\ UNCHANGED << MATERIAL_CONFIG, strftime_pads >>
  /\ UNCHANGED scraper_vars

(* one iteration of the loop over the batches, up to the end of its try     *)
(* statement or to the head of the fallback loop; e.read().decode('utf-8')  *)
(* runs inside the except clause, where nothing catches what it raises      *)
PostBatch(answer) ==
  /\ xpc = "batch"
  /\ batch_i < n_records
  /\ request' = Batch
  /\ batch_sent' = batch_sent \cup Batch
  /\ CASE answer = "ok" ->
            /\ inserted' = inserted + Cardinality(Batch)
            /\ batch_i' = batch_i + batch_size
            /\ UNCHANGED << xpc, errors, record_pos, rejected >>
       [] answer = "error" ->
            /\ errors' = ErrorsAfterBatchError(errors, Batch)
            /\ batch_i' = batch_i + batch_size
            /\ UNCHANGED << xpc, inserted, record_pos, rejected >>
       [] answer = "http_error" ->
            /\ xpc' = "single"
            /\ record_pos' = 0
            /\ rejected' = rejected \cup Batch
            /\ UNCHANGED << inserted, errors, batch_i >>
       [] answer = "http_error_undecodable" ->
            /\ xpc' = "raised"
            /\ rejected' = rejected \cup Batch
            /\ UNCHANGED << inserted, errors, batch_i, record_pos >>
  /\ UNCHANGED << n_records, single_sent >>
  /\ UNCHANGED << pc, last_file, n_files, total_raw, gi, ri, all_rows, csv_file, offered >>
  /\ UNCHANGED filter_vars
  /\ UNCHANGED import_vars
  /\ UNCHANGED << MATERIAL_CONFIG, strftime_pads >>
  /\ UNCHANGED scraper_vars

(* for record in batch: one iteration of the fallback loop *)
PostSingle(ok) ==
  /\ xpc = "single"
  /\ LET record == batch_i + record_pos + 1
     IN /\ request' = {record}
        /\ single_sent' = single_sent \cup {record}
        /\ IF ok
           THEN inserted' = inserted + 1 /\ UNCHANGED errors
           ELSE errors' = errors + 1 /\ UNCHANGED inserted
        /\ IF record + 1 \in Batch
           THEN record_pos' = record_pos + 1 /\ UNCHANGED << xpc, batch_i >>
           ELSE record_pos' = 0 /\ xpc' = "batch" /\ batch_i' = batch_i + batch_size
  /\ UNCHANGED << n_records, batch_sent, rejected >>
  /\ UNCHANGED << pc, last_file, n_files, total_raw, gi, ri, all_rows, csv_file, offered >>
  /\ UNCHANGED filter_vars
  /\ UNCHANGED import_vars
  /\ UNCHANGED << MATERIAL_CONFIG, strftime_pads >>
  /\ UNCHANGED scraper_vars

(* return inserted, errors *)
Return ==
  /\ xpc = "batch"
  /\ batch_i >= n_records
  /\ xpc' = "returned"
  /\ UNCHANGED << n_records, batch_i, record_pos, inserted, errors, request,
                  batch_sent, single_sent, rejected >>
  /\ UNCHANGED << pc, last_file, n_files, total_raw, gi, ri, all_rows, csv_file, offered >>
  /\ UNCHANGED filter_vars
  /\ UNCHANGED import_vars
  /\ UNCHANGED << MATERIAL_CONFIG, strftime_pads >>
  /\ UNCHANGED scraper_vars

(* insert_to_supabase is about to be called with a list of n_records records *)
InsertInit ==
  /\ pc = "done"
  /\ last_file = <<>>
  /\ n_files = 0
  /\ total_raw = 0
  /\ material_key = 0
  /\ kept = 0
  /\ dropped = 0
  /\ filter_stats = <<>>
  /\ title = <<>>
  /\ outcome = "none"
  /\ seen_titles = {}
  /\ filtered_data = <<>>
  /\ gi = 1
  /\ ri = 1
  /\ all_rows = <<>>
  /\ csv_file = <<>>
  /\ ipc = "aggregated"
  /\ records = <<>>
  /\ aggregated = <<>>
  /\ offered = {}
  /\ MATERIAL_CONFIG = "declared"
  /\ strftime_pads = FALSE
  /\ xpc = "idle"
  /\ n_records \in RecordCounts
  /\ batch_i = 0
  /\ record_pos = 0
  /\ inserted = 0
  /\ errors = 0
  /\ request = {}
  /\ batch_sent = {}
  /\ single_sent = {}
  /\ rejected = {}
  /\ ScraperIdle

InsertNext ==
  \/ Call
  \/ \E answer \in BatchAnswers : PostBatch(answer)
  \/ \E ok \in BOOLEAN : PostSingle(ok)
  \/ Return

InsertSpec == InsertInit /\ [][InsertNext]_vars

----------------------------------------------------------------------------
(* process-worthpoint-csvs.py on a directory whose file names exercise      *)
(* get_material_key                                                         *)

F_underscored == <<"_","d","a","r","w","i","n","-","g","l","a","s","s","_",".","c","s","v">>

F_glass == <<"g","l","a","s","s",".","c","s","v">>

F_kt_2024 == <<"k","t","-","b","o","u","n","d","a","r","y","-","2","0","2","4",".","c","s","v">>

F_hidden == <<".","c","s","v">>

Contexts == {F_darwin, F_underscored, F_glass, F_kt_2024, F_notes, F_hidden}

RouteRows == {Row(T_darwin, P_50, D_iso, <<>>), Row(T_boundary, P_top, D_slash, <<>>)}

RouteNext ==
  \/ \E f \in Contexts, n \in 0..MaxRows : OpenFile(f, n)
  \/ \E row \in RouteRows : FilterRow(row)
  \/ CloseFile
  \/ EndFilter
  \/ NormalizeRow
  \/ Save
  \/ Summary

RouteSpec == Init /\ [][RouteNext]_vars

----------------------------------------------------------------------------
(* process-worthpoint-csvs.py started with either table *)

ConfigInit == MATERIAL_CONFIG \in {"declared", "empty"} /\ strftime_pads = FALSE /\ Started

ConfigSpec == ConfigInit /\ [][Next]_vars

----------------------------------------------------------------------------
(* process-worthpoint-csvs.py on darwin-glass.csv alone, with titles that   *)
(* name several units, out-of-bounds masses, or no mass                     *)

T_oz_g == <<"D","a","r","w","i","n"," ","g","l","a","s","s"," ","2","o","z"," ","5","g">>

T_low_oz == <<"D","a","r","w","i","n"," ","g","l","a","s","s"," ","0",".","0","0","1","g"," ","2","o","z">>

T_low == <<"D","a","r","w","i","n"," ","g","l","a","s","s"," ","0",".","0","0","1","g">>

T_shard == <<"D","a","r","w","i","n"," ","g","l","a","s","s"," ","s","h","a","r","d">>

T_ct_kg == <<"D","a","r","w","i","n"," ","g","l","a","s","s"," ","3","c","t"," ","1","k","g">>

T_hyphen_lbs == <<"D","a","r","w","i","n"," ","g","l","a","s","s"," ","5","-","g"," ","2","l","b","s">>

T_high_kg == <<"D","a","r","w","i","n"," ","g","l","a","s","s"," ","2","0","0","0","0","0","g"," ","1","k","g">>

T_low_g == <<"D","a","r","w","i","n"," ","g","l","a","s","s"," ","0",".","0","0","1","g"," ","7","g">>

T_carat == <<"D","a","r","w","i","n"," ","g","l","a","s","s"," ","1","0"," ","c","a","r","a","t"," ","g","e","m">>

T_lb_grams == <<"D","a","r","w","i","n"," ","g","l","a","s","s"," ","1","l","b",","," ","1","2"," ","G","r","a","m","s">>

WeightTitles == {T_oz_g, T_low_oz, T_low, T_shard, T_ct_kg, T_hyphen_lbs, T_high_kg, T_low_g, T_carat, T_lb_grams}

WeightRows == {Row(t, P_50, D_iso, <<>>) : t \in WeightTitles}

WeightNext ==
  \/ \E n \in 0..MaxRows : OpenFile(F_darwin, n)
  \/ \E row \in WeightRows : FilterRow(row)
  \/ CloseFile
  \/ EndFilter
  \/ NormalizeRow
  \/ Save
  \/ Summary

WeightSpec == Init /\ [][WeightNext]_vars

----------------------------------------------------------------------------
(* process-worthpoint-csvs.py on darwin-glass.csv alone, with the date      *)
(* texts parse_date tells apart, on either kind of platform                 *)

D_full == <<"J","a","n","u","a","r","y"," ","5",","," ","2","0","2","4">>

D_loose == <<" "," ","2","0","2","4","-","1","-","5"," ">>

D_early == <<"1","2","/","3","1","/","0","9","9","9">>

D_feb30 == <<"2","0","2","4","-","0","2","-","3","0">>

D_blank == <<" "," "," ">>

DateTexts == {D_iso, D_named, D_slash, D_text, D_short, D_stamp, D_full, D_loose, D_early, D_feb30, D_blank}

DateRows == {Row(T_darwin, P_50, d, <<>>) : d \in DateTexts}

DateInit == MATERIAL_CONFIG = "declared" /\ strftime_pads \in BOOLEAN /\ Started

DateNext ==
  \/ \E n \in 0..MaxRows : OpenFile(F_darwin, n)
  \/ \E row \in DateRows : FilterRow(row)
  \/ CloseFile
  \/ EndFilter
  \/ NormalizeRow
  \/ Save
  \/ Summary

DateSpec == DateInit /\ [][DateNext]_vars

----------------------------------------------------------------------------
(* Properties *)

(* the DedupKey of a title: lowercased, first 60 characters *)
DedupKey(t) == SubSeq(Lower(t), 1, IF Len(t) < 60 THEN Len(t) ELSE 60)

(* the rows admitted so far, over all materials *)
AdmittedRows == {filtered_data[g].rows[r] : <<g, r>> \in
                   {p \in (1..Len(filtered_data)) \X (1..MaxRows + 1) :
                      p[2] <= Len(filtered_data[p[1]].rows)}}

(* a step of the filter loop over one row *)
FilterStep == material_key > 0 /\ total_raw' = total_raw + 1

(* C1: no two emitted canonical sales share a DedupKey, whatever material  *)
(* or file they came from; a sale is emitted only from the one listing     *)
(* that was admitted for its key.                                          *)
C1_UniqueDedupKeys ==
  /\ Cardinality({DedupKey(all_rows[i].title) : i \in 1..Len(all_rows)}) = Len(all_rows)
  /\ Cardinality({DedupKey(a.title) : a \in AdmittedRows}) = Cardinality(AdmittedRows)
  /\ {all_rows[i].title : i \in 1..Len(all_rows)} \subseteq {a.title : a \in AdmittedRows}

(* a listing of the second file was refused as a duplicate of a listing    *)
(* admitted from the first file, which was emitted                         *)
C1_Witness ==
  /\ pc = "done"
  /\ filter_stats = << <<1, 1, 0>>, <<1, 0, 1>> >>
  /\ \A o \in offered : o.passed
  /\ Len(all_rows) = 1

(* C2: for a listing whose predicate passed, a key already seen refuses    *)
(* the listing and leaves the seen set alone; a new key is inserted, the   *)
(* set grows by exactly that key, and the listing is admitted.  The seen   *)
(* set never shrinks.                                                      *)
C2_AdmitStep ==
  [][/\ seen_titles \subseteq seen_titles'
     /\ (FilterStep /\ FilterFn(material_key, title')) =>
          IF DedupKey(title') \in seen_titles
          THEN /\ seen_titles' = seen_titles
               /\ filtered_data' = filtered_data
               /\ kept' = kept
          ELSE /\ seen_titles' = seen_titles \cup {DedupKey(title')}
               /\ Cardinality(seen_titles') = Cardinality(seen_titles) + 1
               /\ filtered_data' /= filtered_data
               /\ kept' = kept + 1]_vars

(* a listing has been refused although its predicate passed *)
C2_Witness ==
  /\ outcome = "duplicate"
  /\ FilterFn(material_key, title)
  /\ DedupKey(title) \in seen_titles
  /\ kept = 1

(* C3: a listing rejected by the predicate of its ruleset inserts no key;  *)
(* when the same title comes again under a ruleset that accepts it, and no *)
(* admitted listing holds its key, it is admitted.                         *)
C3_RejectedKeepsNoSlot ==
  [][FilterStep =>
       /\ ~FilterFn(material_key, title') =>
            seen_titles' = seen_titles /\ filtered_data' = filtered_data
       /\ ( /\ FilterFn(material_key, title')
            /\ \E o \in offered : o.title = title' /\ ~o.passed
            /\ \A a \in AdmittedRows : DedupKey(a.title) /= DedupKey(title') ) =>
            /\ outcome' = "kept"
            /\ \E g \in 1..Len(filtered_data') :
                 LET rows == filtered_data'[g].rows
                 IN Lower(rows[Len(rows)].title) = title']_vars

(* a title rejected under one ruleset has been admitted under a later one *)
C3_Witness ==
  /\ outcome = "kept"
  /\ \E o \in offered : o.title = title /\ ~o.passed
  /\ \E a \in AdmittedRows : Lower(a.title) = title

(* the processor has left its normalize loop *)
Normalized_Done == pc \in {"summary", "done", "raised"}

(* C4: listings reach the deduplicator only after the normalizer accepted  *)
(* them, so a listing with an unknown amount holds no key: every listing   *)
(* that passed its predicate and has a valid amount has its key emitted.   *)
C4_DedupAfterNormalizer ==
  Normalized_Done =>
    \A o \in offered :
      (o.passed /\ o.priced) =>
        \E i \in 1..Len(all_rows) : DedupKey(all_rows[i].title) = DedupKey(o.title)

(* round(price / weight, 2) for a weight of either sign *)
ExpectedPpg(price, w) ==
  IF w > 0 THEN ScaledRoundDiv(price \div w, price % w, w, 4)
  ELSE 0 - ScaledRoundDiv(price \div (0 - w), price % (0 - w), 0 - w, 4)

(* C5: an emitted sale with weight_grams set has price_per_gram set to     *)
(* round(price_usd / weight_grams, 2); one without has price_per_gram null *)
C5_PricePerGramConsistent ==
  \A i \in 1..Len(all_rows) :
    LET r == all_rows[i]
    IN IF r.weight_grams.some
       THEN /\ r.price_per_gram.some
            /\ r.weight_grams.v /= 0
            /\ r.price_per_gram.v = ExpectedPpg(r.price_usd, r.weight_grams.v)
       ELSE ~r.price_per_gram.some

(* C6: an emitted sale has weight_grams unset or strictly inside           *)
(* (0.01, 100000), from the title as well as from the pre-supplied field   *)
C6_WeightWithinBounds ==
  \A i \in 1..Len(all_rows) :
    all_rows[i].weight_grams.some =>
      (100 < all_rows[i].weight_grams.v /\ all_rows[i].weight_grams.v < 1000000000)

(* a sale_date as strftime writes it: YYYY-MM-DD of a calendar day *)
WellFormedDate(d) == Len(d) = 10 /\ StrpIso(d).ok /\ Strftime(StrpIso(d)) = d

(* the loaded sales of a material whose date lies in a month *)
DatedIn(slug, month) ==
  {i \in 1..Len(records) :
     /\ records[i].material_slug = slug
     /\ WellFormedDate(records[i].sale_date)
     /\ SubSeq(records[i].sale_date, 1, 7) = month}

MonthOf(a) == SubSeq(a.recorded_at, 1, Len(a.recorded_at) - 3)

(* C7: a sale whose date matched no format is placed in no bucket: every   *)
(* aggregate counts the sales dated in its month and no other              *)
C7_UnparsedDateInNoBucket ==
  ipc = "aggregated" =>
    \A k \in 1..Len(aggregated) :
      aggregated[k].source =
        SourceLabel(Cardinality(DatedIn(aggregated[k].material_slug, MonthOf(aggregated[k]))))

(* a step of the normalize loop over one admitted row *)
NormalizeStep == pc = "normalize" /\ gi <= Len(filtered_data) /\ (gi' /= gi \/ ri' /= ri)

CurrentRow == filtered_data[gi].rows[ri]

C9_PriceWithinBounds ==
  \A i \in 1..Len(all_rows) :
    0 < all_rows[i].price_usd /\ all_rows[i].price_usd < 100000000

(* C10: the aggregates are strictly ascending by (material_slug,           *)
(* year_month), one for each pair that has a sale dated in that month and  *)
(* none for any other pair                                                 *)
C10_OneAggregatePerMonth ==
  ipc = "aggregated" =>
    /\ \A i, j \in 1..Len(aggregated) :
         i < j =>
           \/ StrLess(aggregated[i].material_slug, aggregated[j].material_slug)
           \/ /\ aggregated[i].material_slug = aggregated[j].material_slug
              /\ StrLess(MonthOf(aggregated[i]), MonthOf(aggregated[j]))
    /\ {<<aggregated[k].material_slug, MonthOf(aggregated[k])>> : k \in 1..Len(aggregated)}
         = {<<records[i].material_slug, SubSeq(records[i].sale_date, 1, 7)>> :
              i \in {j \in 1..Len(records) : WellFormedDate(records[j].sale_date)}}

----------------------------------------------------------------------------
(* Properties of the importer *)

(* the k-th smallest of a sequence of numbers, by rank *)
KthSmallest(prices, k) ==
  CHOOSE v \in {prices[i] : i \in 1..Len(prices)} :
    /\ Cardinality({i \in 1..Len(prices) : prices[i] < v}) < k
    /\ Cardinality({i \in 1..Len(prices) : prices[i] <= v}) >= k

(* twice the standard median: the middle value, or the sum of the two      *)
(* middle values                                                           *)
StandardMedian2(prices) ==
  LET n == Len(prices)
  IN IF n % 2 = 1 THEN 2 * KthSmallest(prices, (n + 1) \div 2)
     ELSE KthSmallest(prices, n \div 2) + KthSmallest(prices, n \div 2 + 1)

(* the price_per_gram values of the loaded records that share a bucket,    *)
(* in file order                                                           *)
RECURSIVE PricesOf(_, _, _)
PricesOf(recs, slug, month) ==
  IF recs = <<>> THEN <<>>
  ELSE LET r == Head(recs)
           rest == PricesOf(Tail(recs), slug, month)
       IN IF /\ r.material_slug = slug
             /\ Len(r.sale_date) >= 7
             /\ SubSeq(r.sale_date, 1, 7) = month
          THEN <<r.price_per_gram>> \o rest
          ELSE rest

(* C11, as stated: the published median of every aggregate equals the      *)
(* standard median of its group's price_per_gram values                    *)
C11_PublishedIsMedian ==
  ipc = "aggregated" =>
    \A k \in 1..Len(aggregated) :
      2 * aggregated[k].price_usd =
        StandardMedian2(PricesOf(records, aggregated[k].material_slug, MonthOf(aggregated[k])))

(* C11, amended: the published value of every aggregate is the standard    *)
(* median of its group's price_per_gram values rounded to 2 decimals       *)
C11_PublishedIsRoundedMedian ==
  ipc = "aggregated" =>
    \A k \in 1..Len(aggregated) :
      LET m2 == StandardMedian2(PricesOf(records, aggregated[k].material_slug,
                                         MonthOf(aggregated[k])))
      IN aggregated[k].price_usd = (m2 + (IF m2 % 4 = 3 THEN 1 ELSE 0)) \div 2

(* the group 4.00, 1.00, 3.00, 2.00 was published as 2.50 *)
C11_Witness ==
  /\ ipc = "aggregated"
  /\ [i \in 1..Len(records) |-> records[i].price_per_gram] = <<400, 100, 300, 200>>
  /\ Len(aggregated) = 1
  /\ aggregated[1].price_usd = 250

(* the K of a provenance label 'WorthPoint (n=K)' *)
SampleCount(a) == DigitsToInt(SubSeq(a.source, 15, Len(a.source) - 1))

RECURSIVE SumOfCounts(_)
SumOfCounts(aggs) ==
  IF aggs = <<>> THEN 0 ELSE SampleCount(Head(aggs)) + SumOfCounts(Tail(aggs))

(* C12: the label of every aggregate reads 'WorthPoint (n=K)' with K the   *)
(* number of loaded sales of its material whose date starts with its       *)
(* year_month, and the K of all aggregates add up to the number of records *)
(* that were given a bucket                                                *)
C12_SampleCountIsGroupSize ==
  ipc = "aggregated" =>
    /\ \A k \in 1..Len(aggregated) :
         LET a == aggregated[k]
             digits == SubSeq(a.source, 15, Len(a.source) - 1)
         IN /\ SubSeq(a.source, 1, 14) = <<"W","o","r","t","h","P","o","i","n","t"," ","(","n","=">>
            /\ a.source[Len(a.source)] = ")"
            /\ digits /= <<>>
            /\ AllDigits(digits)
            /\ SampleCount(a) = Len(PricesOf(records, a.material_slug, MonthOf(a)))
            /\ SampleCount(a) >= 1
    /\ SumOfCounts(aggregated) =
         Cardinality({i \in 1..Len(records) : Len(records[i].sale_date) >= 7})

(* four sales were loaded: two fell into one bucket, one into another, and *)
(* one, with a date shorter than a year_month, into none                   *)
C12_Witness ==
  /\ ipc = "aggregated"
  /\ Len(records) = 4
  /\ Len(aggregated) = 2
  /\ SampleCount(aggregated[1]) = 2
  /\ SampleCount(aggregated[2]) = 1
  /\ \E i \in 1..Len(records) : Len(records[i].sale_date) < 7

----------------------------------------------------------------------------
(* Properties of the two scripts run one after the other *)

KpgRulesetNames ==
  { <<"k","t","-","b","o","u","n","d","a","r","y">>,
    <<"c","r","e","t","a","c","e","o","u","s","-","b","o","u","n","d","a","r","y">>,
    <<"i","m","p","a","c","t","-","s","p","h","e","r","u","l","e","s">> }

Kpg == <<"k","p","g","-","b","o","u","n","d","a","r","y">>

(* the emitted sales of a material and month that the importer loads *)
SalesIn(slug, month) ==
  {i \in 1..Len(all_rows) :
     LET r == all_rows[i]
     IN /\ r.material_slug = slug
        /\ r.price_per_gram.some
        /\ r.price_per_gram.v > 0
        /\ r.price_per_gram.v <= 5000000
        /\ r.sale_date.some
        /\ Len(r.sale_date.v) >= 7
        /\ SubSeq(r.sale_date.v, 1, 7) = month}

(* the months of the emitted sales *)
SaleMonths ==
  {SubSeq(all_rows[i].sale_date.v, 1, 7) :
     i \in {j \in 1..Len(all_rows) :
              all_rows[j].sale_date.some /\ Len(all_rows[j].sale_date.v) >= 7}}

(* C13: a listing admitted under kt-boundary, cretaceous-boundary or       *)
(* impact-spherules is filed under kpg-boundary; the sales of kpg-boundary *)
(* of one month, whatever ruleset admitted them, are counted in one single *)
(* aggregate, and no sale and no aggregate is keyed by a ruleset name      *)
C13_RulesetsMergeIntoOneAggregate ==
  /\ [][(FilterStep /\ ConfigKeys[material_key] \in KpgRulesetNames /\ outcome' = "kept") =>
          \E g \in 1..Len(filtered_data') :
            /\ filtered_data'[g].slug = Kpg
            /\ Lower(filtered_data'[g].rows[Len(filtered_data'[g].rows)].title) = title'
            /\ \A h \in 1..Len(filtered_data') : filtered_data'[h].slug = Kpg => h = g]_vars
  /\ [](/\ \A i \in 1..Len(all_rows) : all_rows[i].material_slug \notin KpgRulesetNames
        /\ ipc = "aggregated" =>
             /\ \A k \in 1..Len(aggregated) :
                  aggregated[k].material_slug \notin KpgRulesetNames
             /\ \A m \in SaleMonths :
                  SalesIn(Kpg, m) /= {} =>
                    LET ks == {k \in 1..Len(aggregated) :
                                 aggregated[k].material_slug = Kpg /\ MonthOf(aggregated[k]) = m}
                    IN /\ Cardinality(ks) = 1
                       /\ \A k \in ks : SampleCount(aggregated[k]) = Cardinality(SalesIn(Kpg, m)))

(* one listing was admitted from cretaceous-boundary.csv and one from      *)
(* kt-boundary.csv, and the month they share has one aggregate of two      *)
C13_Witness ==
  /\ ipc = "aggregated"
  /\ filter_stats = << <<1, 1, 0>>, <<1, 1, 0>> >>
  /\ Len(filtered_data) = 1
  /\ filtered_data[1].slug = Kpg
  /\ Len(aggregated) = 1
  /\ aggregated[1].material_slug = Kpg
  /\ SampleCount(aggregated[1]) = 2

(* the admitted rows filed under a canonical identifier *)
AdmittedUnder(slug) ==
  UNION {{filtered_data[g].rows[r] : r \in 1..Len(filtered_data[g].rows)} :
           g \in {h \in 1..Len(filtered_data) : filtered_data[h].slug = slug}}

(* C14: a listing is admitted only if its lowercased title satisfies the   *)
(* predicate of the ruleset its file was routed to, and is then filed      *)
(* under that ruleset's canonical identifier; a listing whose title fails  *)
(* the predicate is not admitted; every emitted sale comes from a listing  *)
(* admitted under the sale's material_slug, which no step removes          *)
C14_EmittedSatisfiesPredicate ==
  /\ [][IF FilterStep
        THEN /\ \E o \in offered' : /\ Lower(o.title) = title'
                                  /\ o.passed = FilterFn(material_key, title')
             /\ IF FilterFn(material_key, title')
                THEN (filtered_data' /= filtered_data) =>
                       (\E r \in AdmittedUnder(ConfigSlug[material_key])' :
                          /\ Lower(r.title) = title'
                          /\ filtered_data' = AppendTo(filtered_data, ConfigSlug[material_key], r))
                ELSE filtered_data' = filtered_data /\ outcome' = "filtered"
        ELSE filtered_data' = filtered_data]_vars
  /\ [](\A i \in 1..Len(all_rows) :
          /\ \E r \in AdmittedUnder(all_rows[i].material_slug) : r.title = all_rows[i].title
          /\ \E k \in 1..Len(ConfigKeys) :
               /\ ConfigSlug[k] = all_rows[i].material_slug
               /\ FilterFn(k, Lower(all_rows[i].title)))

(* a trinitite listing offered in darwin-glass.csv failed the predicate    *)
(* and was not emitted, while a listing of that file that passed was       *)
C14_Witness ==
  /\ pc = "done"
  /\ filter_stats = << <<2, 1, 1>> >>
  /\ \E o \in offered : ~o.passed
  /\ Len(all_rows) = 1
  /\ all_rows[1].material_slug = S_darwin

(* C16: a listing that is fed to the deduplicator again (its title passed  *)
(* the predicate before, and passes it now) is refused, and neither the    *)
(* seen set nor the admitted rows change, so a second pass over a sequence *)
(* admits nothing new                                                      *)
C16_SecondPassAdmitsNothing ==
  [][( /\ FilterStep
       /\ FilterFn(material_key, title')
       /\ \E o \in offered : o.title = title' /\ o.passed ) =>
        /\ outcome' = "duplicate"
        /\ seen_titles' = seen_titles
        /\ filtered_data' = filtered_data
        /\ AdmittedRows' = AdmittedRows]_vars

(* a one-listing sequence was fed once to each of two files, and admitted  *)
(* once                                                                    *)
C16_Witness ==
  /\ pc = "filter"
  /\ total_raw = 2
  /\ Len(filter_stats) = 1
  /\ filter_stats[1] = <<1, 1, 0>>
  /\ Cardinality(offered) = 1
  /\ outcome = "duplicate"
  /\ Cardinality(seen_titles) = 1
  /\ Cardinality(AdmittedRows) = 1

(* C17: the processing run never raises, whatever its input *)
C17_RunCompletes == pc /= "raised"

(* C18: an emitted sale takes its mass from the pre-supplied weight_grams   *)
(* when that parses as a positive number, whatever the title says, and     *)
(* from the title (or none) when the field is absent, unparseable or not   *)
(* positive                                                                *)
C18_PreSuppliedMassFirst ==
  [][(NormalizeStep /\ Len(all_rows') = Len(all_rows) + 1) =>
       LET f == ParseFloat(CurrentRow.weight_grams, WEIGHT_SCALE)
           mass == all_rows'[Len(all_rows')].weight_grams
       IN IF CurrentRow.weight_grams /= <<>> /\ f.ok /\ ~f.neg /\ f.mag > 0
          THEN mass = Some(f.mag)
          ELSE mass = extract_weight(CurrentRow.title)]_vars

----------------------------------------------------------------------------
(* Properties of the routing *)

(* the source context of a file: its name without .csv, lowercased *)
ContextOf(f) == Lower(RemoveAll(Basename(f), DotCsv))

(* ruleset k and a context match by substring, in either direction *)
SubstringMatch(k, c) == Contains(c, ConfigKeys[k]) \/ Contains(ConfigKeys[k], c)

(* the filter loop takes the next file *)
OpenStep == pc = "filter" /\ n_files' = n_files + 1

(* C15: a context that equals a ruleset name gets that ruleset; otherwise  *)
(* it gets a ruleset whose name contains it or is contained in it; if no   *)
(* ruleset matches it gets none, and while no ruleset is chosen no listing *)
(* is filtered, admitted or emitted                                        *)
C15_ResolutionOrder ==
  [][/\ OpenStep =>
          LET c == ContextOf(last_file')
              keys == 1..Len(ConfigKeys)
          IN IF \E k \in keys : ConfigKeys[k] = c
             THEN material_key' \in keys /\ ConfigKeys[material_key'] = c
             ELSE IF \E k \in keys : SubstringMatch(k, c)
             THEN material_key' \in keys /\ SubstringMatch(material_key', c)
             ELSE material_key' = 0
     /\ (pc = "filter" /\ material_key = 0) =>
          /\ offered' = offered
          /\ seen_titles' = seen_titles
          /\ filtered_data' = filtered_data
          /\ all_rows' = all_rows]_vars

(* _darwin-glass_.csv was routed to the ruleset of that name, although the *)
(* name darwin-glass, declared before it, is a substring of the context    *)
C15_Witness ==
  /\ last_file = F_underscored
  /\ material_key > 0
  /\ ConfigKeys[material_key] = ContextOf(F_underscored)
  /\ \E k \in 1..(material_key - 1) : Contains(ContextOf(F_underscored), ConfigKeys[k])

----------------------------------------------------------------------------
(* Properties of the run with an empty table *)

(* C20: with an empty ruleset table the run stops before any processing:   *)
(* no row is filtered, deduplicated or normalized, and no output table is  *)
(* written                                                                 *)
C20_EmptyTableStopsRun ==
  MATERIAL_CONFIG = "empty" =>
    /\ offered = {}
    /\ seen_titles = {}
    /\ filtered_data = <<>>
    /\ all_rows = <<>>
    /\ pc \notin {"summary", "done", "raised"}

----------------------------------------------------------------------------
(* Properties of the report *)

(* total_filtered: the admitted rows are distinct, one per key *)
TotalFiltered == Cardinality(AdmittedRows)

(* C21: the drops are counted per category, so the counter that a listing  *)
(* failing its predicate moves (dropped, line 174) is not moved by a       *)
(* duplicate; and the reported drops (total_raw - total_filtered) account  *)
(* for every raw row that did not become a canonical sale                  *)
C21_DropsCountedPerCategory ==
  /\ [][(FilterStep /\ outcome' = "duplicate") => dropped' = dropped]_vars
  /\ [](Normalized_Done => total_raw - Len(all_rows) = total_raw - TotalFiltered)

----------------------------------------------------------------------------
(* Properties of the mass extractor *)

(* the number of rule k's match in a title (the leftmost one), times the   *)
(* rule's multiplier, in 1/10000 g times the multiplier's denominator      *)
RuleMatches(t, k) == \E i \in 1..Len(t) : MatchAt(t, patterns[k], i)

RuleValue(t, k) ==
  LET i == CHOOSE a \in 1..Len(t) :
             MatchAt(t, patterns[k], a) /\ \A b \in 1..(a - 1) : ~MatchAt(t, patterns[k], b)
  IN ParseFloat(SubSeq(t, i, NumEnd(t, i)), WEIGHT_SCALE).mag * patterns[k].num

(* 0.01 < value < 100000 *)
RuleInBounds(t, k) ==
  /\ RuleValue(t, k) > (Pow10(WEIGHT_SCALE) \div 100) * patterns[k].den
  /\ RuleValue(t, k) \div patterns[k].den < 100000 * Pow10(WEIGHT_SCALE)

(* the rules that match a title with a converted value inside the bounds *)
GoodRules(t) == {k \in 1..Len(patterns) : RuleMatches(t, k) /\ RuleInBounds(t, k)}

(* C22: the mass of an emitted sale without a pre-supplied mass is the     *)
(* converted value, rounded to 3 decimals, of the first rule in list order *)
(* that matches the title with a converted value in (0.01, 100000),        *)
(* wherever in the title the units stand; a matching rule whose value is   *)
(* out of bounds is passed over; the mass is unknown when no rule is left  *)
C22_FirstRuleInBoundsWins ==
  [][(NormalizeStep /\ Len(all_rows') = Len(all_rows) + 1 /\ CurrentRow.weight_grams = <<>>) =>
       LET t == CurrentRow.title
           mass == all_rows'[Len(all_rows')].weight_grams
       IN IF GoodRules(t) = {}
          THEN mass = NoneVal
          ELSE LET k == CHOOSE m \in GoodRules(t) : \A o \in GoodRules(t) : m <= o
               IN /\ mass.some
                  /\ mass.v = RoundDiv(RuleValue(t, k), patterns[k].den * 10) * 10]_vars

(* a title whose gram figure is out of bounds got its mass from the ounce  *)
(* rule, and a title that names ounces before grams got the gram figure    *)
C22_Witness ==
  /\ Len(all_rows) = 2
  /\ all_rows[1].title = T_low_oz /\ all_rows[1].weight_grams = Some(567000)
  /\ all_rows[2].title = T_oz_g /\ all_rows[2].weight_grams = Some(50000)

----------------------------------------------------------------------------
(* Properties of the date parser *)

(* strptime accepts the stripped text under one of the four formats *)
MatchesFormat(t) ==
  LET s == Strip(t)
  IN \/ StrpNamed(s, MonthAbbr).ok
     \/ StrpNamed(s, MonthFull).ok
     \/ StrpSlash(s).ok
     \/ StrpIso(s).ok

(* a YYYY-MM-DD text *)
IsYmd(d) ==
  /\ Len(d) = 10
  /\ d[5] = "-" /\ d[8] = "-"
  /\ \A i \in {1, 2, 3, 4, 6, 7, 9, 10} : IsDigit(d[i])

(* C23: the date of an emitted sale is a YYYY-MM-DD text when the raw date *)
(* matches a supported format, and the raw text unmodified when it matches *)
(* none; parse_date returns its own output unchanged                       *)
C23_ParseDateIdempotent ==
  [][(NormalizeStep /\ Len(all_rows') = Len(all_rows) + 1 /\ DateText(CurrentRow) /= <<>>) =>
       LET src == DateText(CurrentRow)
           out == all_rows'[Len(all_rows')].sale_date
       IN /\ out.some
          /\ parse_date(out.v) = out
          /\ IF MatchesFormat(src) THEN IsYmd(out.v) ELSE out.v = src]_vars

----------------------------------------------------------------------------
(* The worked example of the two scripts run one after the other *)

(* darwin-glass.csv held two listings, 'Darwin Glass tektite 5.2g sold'     *)
(* first and a priced listing of the same lowercased title second, as      *)
(* 'darwin glass tektite 5.2g SOLD' is; the file is the one routed to the  *)
(* darwin-glass ruleset                                                    *)
ExampleRun ==
  /\ total_raw = 2
  /\ Len(filter_stats) = 1
  /\ filter_stats[1][1] = 2
  /\ Lower(T_darwin) = Lower(T_darwin_caps)
  /\ {o.title : o \in offered} = {Lower(T_darwin_caps)}
  /\ \A o \in offered : o.priced
  /\ Len(filtered_data) >= 1
  /\ filtered_data[1].rows[1] = Row(T_darwin, P_50, D_iso, <<>>)
  /\ filtered_data[1].slug = S_darwin

(* C24: of the two listings of the example, which classify to the same     *)
(* material, the second is dropped as a duplicate, one sale is emitted,    *)
(* and the one monthly aggregate has median price per gram 9.62 and        *)
(* sample count 1                                                          *)
C24_ExampleAggregate ==
  (ExampleRun /\ ipc = "aggregated") =>
    /\ \A o \in offered : o.passed
    /\ filter_stats = << <<2, 1, 1>> >>
    /\ Len(filtered_data) = 1 /\ Len(filtered_data[1].rows) = 1
    /\ Len(all_rows) = 1
    /\ all_rows[1].material_slug = S_darwin
    /\ all_rows[1].price_per_gram = Some(962)
    /\ Len(aggregated) = 1
    /\ aggregated[1].material_slug = S_darwin
    /\ aggregated[1].price_usd = 962
    /\ SampleCount(aggregated[1]) = 1
    /\ MonthOf(aggregated[1]) = SubSeq(D_iso, 1, 7)

(* the example has run to its aggregate *)
C24_Witness ==
  /\ ExampleRun
  /\ ipc = "aggregated"
  /\ Len(aggregated) = 1

----------------------------------------------------------------------------
(* Properties of insert_to_supabase *)

(* a step that posts a batch, a step that posts one record *)
BatchPost == xpc = "batch" /\ request' /= request /\ batch_sent' /= batch_sent

SinglePost == xpc = "single" /\ single_sent' /= single_sent

(* C27: when insert_to_supabase returns, inserted + errors is the number   *)
(* of records passed in, whatever the answers were; the batches go out in  *)
(* input order, each starting where the last one ended, with at most 100   *)
(* records, and full unless it is the last                                 *)
C27_EveryRecordAccounted ==
  /\ [](xpc = "returned" => inserted + errors = n_records)
  /\ [](xpc = "returned" => batch_sent = 1..n_records)
  /\ [][xpc = "batch" /\ batch_sent' /= batch_sent =>
          /\ request' = (Cardinality(batch_sent) + 1)..(Cardinality(batch_sent) + Cardinality(request'))
          /\ batch_sent' = 1..(Cardinality(batch_sent) + Cardinality(request'))
          /\ Cardinality(request') <= 100
          /\ Cardinality(request') = 100 \/ batch_sent' = 1..n_records]_vars

(* 101 records went out in two batches; the first was rejected, some of    *)
(* its records failed on their own, and the function returned              *)
C27_Witness ==
  /\ xpc = "returned"
  /\ n_records = MaxRecords
  /\ rejected = 1..100
  /\ errors > 0
  /\ inserted > 100 - errors

(* C25: a record goes out at most once in a batch and at most once on its  *)
(* own, and only a record of a rejected batch goes out on its own; when    *)
(* the call is over, every record of a rejected batch has been sent on its *)
(* own, whatever became of the records before it, and every batch has been *)
(* attempted                                                               *)
C25_RejectedBatchResentSingly ==
  /\ [][BatchPost => request' \cap batch_sent = {}]_vars
  /\ [][SinglePost => /\ request' \cap single_sent = {}
                      /\ Cardinality(request') = 1
                      /\ request' \subseteq rejected]_vars
  /\ [](xpc \in {"returned", "raised"} =>
          /\ rejected \subseteq single_sent
          /\ batch_sent = 1..n_records)

-----------------------------------------------------------------------------
(* The deduplication paths: the processor's filter loop and the listing loops
   of worthpoint-scraper.py and worthpoint-playwright.py *)

SCRAPER_KEY_LEN == 50

PLAYWRIGHT_KEY_LEN == 60

(* title_key = listing['title'].lower()[:50] *)
scraper_title_key(t) == Prefix(Lower(t), SCRAPER_KEY_LEN)

(* title_key = listing["title"].lower()[:60] *)
playwright_title_key(t) == Prefix(Lower(t), PLAYWRIGHT_KEY_LEN)

(* title = row.get('title', '').lower(); title_key = title[:60] *)
csv_title_key(t) == title_key(Lower(t))

T_crater == <<"D","a","r","w","i","n"," ","g","l","a","s","s"," ","i","m","p","a","c","t","i","t","e"," ","s","p","e","c","i","m","e","n"," ","f","r","o","m"," ","M","o","u","n","t"," ","D","a","r","w","i","n"," ","c","r","a","t","e","r"," ","3","g">>

T_summit == <<"D","a","r","w","i","n"," ","g","l","a","s","s"," ","i","m","p","a","c","t","i","t","e"," ","s","p","e","c","i","m","e","n"," ","f","r","o","m"," ","M","o","u","n","t"," ","D","a","r","w","i","n"," ","s","u","m","m","i","t"," ","3","g">>

DedupTitles ==
  {T_darwin, T_darwin_caps, T_long_a, T_long_b, T_crater, T_summit, T_oz_g,
   T_low_oz, T_carat}

MaxFeed == 3

(* The same listing title reaches the three paths: each decides whether it
   has seen the title's key (`if title_key in seen_titles: continue`) and
   adds the key to its own seen_titles otherwise. *)
FeedListing(t) ==
  /\ pc = "filter"
  /\ n_fed < MaxFeed
  /\ n_fed' = n_fed + 1
  /\ dup' = [csv |-> FilterOutcome(TRUE, csv_title_key(t), seen_titles) = "duplicate",
             scraper |-> scraper_title_key(t) \in scraper_seen,
             playwright |-> playwright_title_key(t) \in playwright_seen]
  /\ seen_titles' = SeenAfter(TRUE, csv_title_key(t), seen_titles)
  /\ scraper_seen' = scraper_seen \cup {scraper_title_key(t)}
  /\ playwright_seen' = playwright_seen \cup {playwright_title_key(t)}
  /\ UNCHANGED << pc, last_file, n_files, total_raw, material_key, kept, dropped,
                  filter_stats, title, outcome, filtered_data, gi, ri, all_rows,
                  csv_file, ipc, records, aggregated, offered >>
  /\ UNCHANGED << MATERIAL_CONFIG, strftime_pads >>
  /\ UNCHANGED insert_vars
  /\ UNCHANGED << spc, page_num, offset, consecutive_empty, navigations >>

DedupNext == \E t \in DedupTitles : FeedListing(t)

DedupSpec == Init /\ [][DedupNext]_vars

(* C26: every path that deduplicates listings uses the same key, the
   lowercased title cut to exactly 60 characters: a title is a duplicate in
   one path exactly when it is a duplicate in every other path. *)
C26_SameKeyInEveryPath ==
  dup /= << >> => /\ dup.csv = dup.scraper
                  /\ dup.csv = dup.playwright

-----------------------------------------------------------------------------
(* The sanity range of load_merged_csv *)

(* lines of the merged CSV at and around the bounds of the range: 0.01 and
   50000.00 per gram inside, 0.00 and 50000.01 outside, a sale without a date
   and a sale without a price per gram *)
RangeSales ==
  { CsvSale(S_darwin, Some(D_iso), Some(1)),
    CsvSale(S_darwin, Some(D_iso), Some(MAX_PPG)),
    CsvSale(S_darwin, Some(D_iso), Some(MAX_PPG + 1)),
    CsvSale(S_darwin, Some(D_feb), Some(0)),
    CsvSale(S_trinitite, Some(D_feb), Some(MAX_PPG + 1)),
    CsvSale(S_trinitite, NoneStr, Some(100)),
    CsvSale(S_trinitite, Some(D_iso), NoneVal) }

RangeInit ==
  /\ pc = "done"
  /\ last_file = <<>>
  /\ n_files = 0
  /\ total_raw = 0
  /\ material_key = 0
  /\ kept = 0
  /\ dropped = 0
  /\ filter_stats = <<>>
  /\ title = <<>>
  /\ outcome = "none"
  /\ seen_titles = {}
  /\ filtered_data = <<>>
  /\ gi = 1
  /\ ri = 1
  /\ all_rows = <<>>
  /\ csv_file \in UNION {[1..n -> RangeSales] : n \in 0..MaxCsv}
  /\ ipc = "idle"
  /\ records = <<>>
  /\ aggregated = <<>>
  /\ offered = {}
  /\ MATERIAL_CONFIG = "declared"
  /\ strftime_pads = FALSE
  /\ InsertIdle
  /\ ScraperIdle

RangeSpec == RangeInit /\ [][ImportNext]_vars

(* 0 < price_per_gram <= 50000, in cents *)
InRange(c) == 0 < c /\ c <= 50000 * 100

(* the (material, month) pairs that have a line in the merged CSV *)
FileGroups ==
  { <<csv_file[i].material_slug, Prefix(csv_file[i].sale_date, 7)>> :
      i \in {j \in 1..Len(csv_file) : Len(csv_file[j].sale_date) >= 7} }

LinesOfGroup(g) ==
  { i \in 1..Len(csv_file) :
      /\ csv_file[i].material_slug = g[1]
      /\ Len(csv_file[i].sale_date) >= 7
      /\ Prefix(csv_file[i].sale_date, 7) = g[2] }

(* C28: every loaded record has 0 < price_per_gram <= 50000 and a non-empty
   sale_date and stands in the merged CSV; every published monthly median
   lies in (0, 50000]; a (material, month) group whose only sales have a
   price_per_gram outside the range produces no aggregate. *)
C28_OnlyInRangeSalesAggregated ==
  /\ ipc \in {"loaded", "aggregated"} =>
       \A i \in 1..Len(records) :
         /\ InRange(records[i].price_per_gram)
         /\ records[i].sale_date /= <<>>
         /\ \E j \in 1..Len(csv_file) :
              /\ csv_file[j].price_per_gram = Some(records[i].price_per_gram)
              /\ csv_file[j].sale_date = records[i].sale_date
              /\ csv_file[j].material_slug = records[i].material_slug
  /\ ipc = "aggregated" =>
       /\ \A i \in 1..Len(aggregated) : InRange(aggregated[i].price_usd)
       /\ \A g \in FileGroups :
            (\A i \in LinesOfGroup(g) :
               csv_file[i].price_per_gram.some
                 /\ ~InRange(csv_file[i].price_per_gram.v))
            => ~\E k \in 1..Len(aggregated) :
                  /\ aggregated[k].material_slug = g[1]
                  /\ MonthOf(aggregated[k]) = g[2]

(* a file with 50000.00 and 50000.01 in one month and a month holding 0.00
   only: one aggregate, at the upper bound *)
C28_Witness ==
  /\ ipc = "aggregated"
  /\ Len(csv_file) = 3
  /\ csv_file[1] = CsvSale(S_darwin, Some(D_iso), Some(MAX_PPG + 1))
  /\ csv_file[2] = CsvSale(S_darwin, Some(D_feb), Some(0))
  /\ csv_file[3] = CsvSale(S_darwin, Some(D_iso), Some(MAX_PPG))
  /\ Len(records) = 1
  /\ Len(aggregated) = 1
  /\ aggregated[1].price_usd = MAX_PPG
  /\ SampleCount(aggregated[1]) = 1

-----------------------------------------------------------------------------
(* Contexts that match several ruleset names *)

F_boundary == <<"b","o","u","n","d","a","r","y",".","c","s","v">>

F_nwa == <<"n","w","a",".","c","s","v">>

(* boundary: kt-boundary and cretaceous-boundary; nwa: nwa-martian and
   nwa-lunar; glass: four names; the empty context of .csv: every name;
   kt-boundary-2024: one name; darwin-glass: an exact match *)
OrderContexts == {F_boundary, F_nwa, F_glass, F_hidden, F_kt_2024, F_darwin}

OrderNext ==
  \/ \E f \in OrderContexts, n \in 0..MaxRows : OpenFile(f, n)
  \/ \E row \in RouteRows : FilterRow(row)
  \/ CloseFile
  \/ EndFilter
  \/ NormalizeRow
  \/ Save
  \/ Summary

OrderSpec == Init /\ [][OrderNext]_vars

(* the ruleset names that match context c by substring *)
SubstringMatches(c) == {k \in 1..Len(ConfigKeys) : SubstringMatch(k, c)}

(* C29: a context that equals no ruleset name and substring-matches several
   gets the one declared first in MATERIAL_CONFIG, whatever was processed
   before *)
C29_FirstDeclaredWins ==
  [][OpenStep =>
       LET c == ContextOf(last_file')
       IN ((\A k \in 1..Len(ConfigKeys) : ConfigKeys[k] /= c)
             /\ Cardinality(SubstringMatches(c)) >= 2)
          => /\ material_key' \in SubstringMatches(c)
             /\ \A k \in SubstringMatches(c) : material_key' <= k]_vars

(* boundary.csv went to kt-boundary, declared before cretaceous-boundary,
   which matches as well *)
C29_Witness ==
  /\ last_file = F_boundary
  /\ material_key > 1
  /\ \A k \in 1..Len(ConfigKeys) : ConfigKeys[k] /= ContextOf(F_boundary)
  /\ \E k \in SubstringMatches(ContextOf(F_boundary)) : k > material_key
  /\ \A k \in SubstringMatches(ContextOf(F_boundary)) : k >= material_key

-----------------------------------------------------------------------------
(* worthpoint-chrome-scraper.py, the page loop of main() *)

MAX_PAGES == 200

PAGE_STEP == 20

PageResults == {"no_results", "no_matching", "listings", "last_page"}

IsEmptyPage(found) == found \in {"no_results", "no_matching"}

(* consecutive_empty += 1 on a page without matching listings,
   consecutive_empty = 0 on a page with some *)
EmptyAfter(found, ce) == IF IsEmptyPage(found) THEN ce + 1 ELSE 0

(* offset = 0; page_num = 0; consecutive_empty = 0 *)
StartScrape ==
  /\ spc = "idle"
  /\ spc' = "head"
  /\ offset' = 0
  /\ page_num' = 0
  /\ consecutive_empty' = 0
  /\ navigations' = 0
  /\ UNCHANGED << pc, last_file, n_files, total_raw, gi, ri, all_rows, csv_file, offered >>
  /\ UNCHANGED filter_vars
  /\ UNCHANGED import_vars
  /\ UNCHANGED << MATERIAL_CONFIG, strftime_pads >>
  /\ UNCHANGED insert_vars
  /\ UNCHANGED << scraper_seen, playwright_seen, dup, n_fed >>

(* while page_num < MAX_PAGES: page_num += 1; page.goto(url); a failed
   navigation breaks; the page content decides which prompt comes next *)
Navigate(nav_ok, captcha, sign_in) ==
  /\ spc = "head"
  /\ page_num < MAX_PAGES
  /\ page_num' = page_num + 1
  /\ navigations' = navigations + 1
  /\ spc' = IF ~nav_ok THEN "stopped"
            ELSE IF captcha THEN "captcha_prompt"
            ELSE IF sign_in THEN "login_prompt"
            ELSE "loaded"
  /\ UNCHANGED << offset, consecutive_empty >>
  /\ UNCHANGED << pc, last_file, n_files, total_raw, gi, ri, all_rows, csv_file, offered >>
  /\ UNCHANGED filter_vars
  /\ UNCHANGED import_vars
  /\ UNCHANGED << MATERIAL_CONFIG, strftime_pads >>
  /\ UNCHANGED insert_vars
  /\ UNCHANGED << scraper_seen, playwright_seen, dup, n_fed >>

(* the while condition fails *)
LoopExit ==
  /\ spc = "head"
  /\ page_num >= MAX_PAGES
  /\ spc' = "stopped"
  /\ UNCHANGED << page_num, offset, consecutive_empty, navigations >>
  /\ UNCHANGED << pc, last_file, n_files, total_raw, gi, ri, all_rows, csv_file, offered >>
  /\ UNCHANGED filter_vars
  /\ UNCHANGED import_vars
  /\ UNCHANGED << MATERIAL_CONFIG, strftime_pads >>
  /\ UNCHANGED insert_vars
  /\ UNCHANGED << scraper_seen, playwright_seen, dup, n_fed >>

(* input("Press Enter after solving the CAPTCHA...") returns, page.reload();
   neither call stands in a try block *)
AnswerCaptcha(answered, reload_ok, sign_in) ==
  /\ spc = "captcha_prompt"
  /\ spc' = IF ~answered \/ ~reload_ok THEN "raised"
            ELSE IF sign_in THEN "login_prompt"
            ELSE "loaded"
  /\ UNCHANGED << page_num, offset, consecutive_empty, navigations >>
  /\ UNCHANGED << pc, last_file, n_files, total_raw, gi, ri, all_rows, csv_file, offered >>
  /\ UNCHANGED filter_vars
  /\ UNCHANGED import_vars
  /\ UNCHANGED << MATERIAL_CONFIG, strftime_pads >>
  /\ UNCHANGED insert_vars
  /\ UNCHANGED << scraper_seen, playwright_seen, dup, n_fed >>

(* input("Press Enter after logging in...") returns, then a second
   page.goto(url) outside any try block *)
AnswerLogin(answered, nav_ok) ==
  /\ spc = "login_prompt"
  /\ navigations' = IF answered THEN navigations + 1 ELSE navigations
  /\ spc' = IF answered /\ nav_ok THEN "loaded" ELSE "raised"
  /\ UNCHANGED << page_num, offset, consecutive_empty >>
  /\ UNCHANGED << pc, last_file, n_files, total_raw, gi, ri, all_rows, csv_file, offered >>
  /\ UNCHANGED filter_vars
  /\ UNCHANGED import_vars
  /\ UNCHANGED << MATERIAL_CONFIG, strftime_pads >>
  /\ UNCHANGED insert_vars
  /\ UNCHANGED << scraper_seen, playwright_seen, dup, n_fed >>

(* wait_for_selector, extract_listings, has_next_page: the rest of the
   iteration.  The listings themselves go to results and seen_titles, which
   the loop control does not read. *)
ReadPage(found) ==
  /\ spc = "loaded"
  /\ LET ce == EmptyAfter(found, consecutive_empty)
         stop == IF IsEmptyPage(found) THEN ce >= 2 ELSE found = "last_page"
     IN /\ consecutive_empty' = ce
        /\ offset' = IF stop THEN offset ELSE offset + PAGE_STEP
        /\ spc' = IF stop THEN "stopped" ELSE "head"
  /\ UNCHANGED << page_num, navigations >>
  /\ UNCHANGED << pc, last_file, n_files, total_raw, gi, ri, all_rows, csv_file, offered >>
  /\ UNCHANGED filter_vars
  /\ UNCHANGED import_vars
  /\ UNCHANGED << MATERIAL_CONFIG, strftime_pads >>
  /\ UNCHANGED insert_vars
  /\ UNCHANGED << scraper_seen, playwright_seen, dup, n_fed >>

ScrapeNext ==
  \/ StartScrape
  \/ \E nav_ok, captcha, sign_in \in BOOLEAN : Navigate(nav_ok, captcha, sign_in)
  \/ LoopExit
  \/ \E answered, reload_ok, sign_in \in BOOLEAN : AnswerCaptcha(answered, reload_ok, sign_in)
  \/ \E answered, nav_ok \in BOOLEAN : AnswerLogin(answered, nav_ok)
  \/ \E found \in PageResults : ReadPage(found)

(* the script runs on, and a prompt is answered or its input() fails *)
ScrapeSpec == Init /\ [][ScrapeNext]_vars /\ WF_vars(ScrapeNext)

InPage == spc \in {"captcha_prompt", "login_prompt", "loaded"}

LoopOver == spc \in {"stopped", "raised"}

ReadStep == spc = "loaded" /\ spc' /= "loaded"

NavigateStep == spc = "head" /\ page_num' = page_num + 1

(* what the loop does on the result of a page, and where it asks for one *)
LoopControl ==
  /\ [][ReadStep =>
          /\ consecutive_empty' \in {0, consecutive_empty + 1}
          /\ (consecutive_empty' >= 2) => spc' = "stopped"
          /\ (consecutive_empty' = 1) => spc' = "head"
          /\ (spc' = "head") => offset' = offset + PAGE_STEP
          /\ (spc' = "stopped") => offset' = offset]_vars
  /\ [][NavigateStep => spc' \in {"stopped", "captcha_prompt", "login_prompt", "loaded"}]_vars
  /\ [](consecutive_empty >= 2 => spc = "stopped")
  /\ [](InPage => offset = PAGE_STEP * (page_num - 1))
  /\ [](spc = "head" => offset = PAGE_STEP * page_num)

(* C30, as stated: the page loop always terminates, with at most MAX_PAGES
   page navigations; it stops on the second consecutive page without
   matching listings, the counter being reset by a page that has some, on a
   failed navigation and on the last page; the offset grows by 20 per page
   visited *)
C30_PageLoopTerminates ==
  /\ [](navigations <= MAX_PAGES)
  /\ LoopControl
  /\ <>LoopOver

====
